---- MODULE Spec2Model ----
(***************************************************************************)
(* The agent tool-calling loop of the project-management assistant:        *)
(* Agent.run / Agent.run_streaming (app/agent/core.py), the tools they     *)
(* dispatch (app/agent/tools), the repositories the tools write to         *)
(* (app/db/repositories) and the conversation memory (app/agent/memory.py).*)
(*                                                                         *)
(* Python values are modelled as follows.  A dict is a record; a missing   *)
(* key is a missing field.  A list is a sequence.  A string that the code  *)
(* strips or lowercases (a task title) is a sequence of characters; other  *)
(* strings are TLA+ strings.  None is Null and a value that may be None is *)
(* wrapped by Some.  json.dumps(v) is the record [json |-> v].  A database *)
(* UUID is the number of the row's creation among all rows.                *)
(***************************************************************************)
EXTENDS Integers, Sequences, FiniteSets, TLC

VARIABLES
    tasks,          \* rows of table tasks, in creation order
    plans,          \* rows of table plans, in creation order
    uuid_seq,       \* number of UUIDs the database has generated
    chat,           \* rows of table chat_messages, in created_at order
    mode,           \* "run" | "stream": which entry point is executing
    pc,             \* position of the running coroutine
    user_message,   \* argument of run / run_streaming
    iteration,      \* local variable iteration
    messages,       \* local variable messages (the list handed to the LLM)
    all_tool_calls, \* local variable all_tool_calls
    response,       \* local variable response (the normalized LLM result)
    tool_results,   \* local variable tool_results of the current turn
    llm_calls,      \* number of llm.chat / llm.chat_streaming invocations
    free_calls,     \* tool calls the LLM has requested out of its free menu
    events,         \* events yielded by run_streaming so far
    returned,       \* value returned by run (Null until it returns)
    op              \* the last operation applied directly (tool or memory)

dbvars    == <<tasks, plans, uuid_seq>>
agentvars == <<mode, pc, user_message, iteration, messages, all_tool_calls,
               response, tool_results, llm_calls, free_calls, events, returned>>
vars      == <<tasks, plans, uuid_seq, chat, mode, pc, user_message, iteration,
               messages, all_tool_calls, response, tool_results, llm_calls,
               free_calls, events, returned, op>>

-----------------------------------------------------------------------------
(* Python values *)

Null == [isnull |-> TRUE]
Some(v) == [isnull |-> FALSE, v |-> v]

\* `x if x else None` for a list x
ListOrNone(list) == IF Len(list) > 0 THEN Some(list) ELSE Null

\* json.dumps
JsonDumps(v) == [json |-> v]

\* dict.get(key, default)
DictGet(d, key, default) == IF key \in DOMAIN d THEN d[key] ELSE default

GetPriority(t, default) == DictGet(t, "priority", default)

Range(s) == {s[i] : i \in DOMAIN s}

-----------------------------------------------------------------------------
(* Titles: str.strip() and str.lower() *)

Whitespace == {" "}

RECURSIVE LStrip(_)
LStrip(s) == IF s # <<>> /\ Head(s) \in Whitespace THEN LStrip(Tail(s)) ELSE s

RECURSIVE RStrip(_)
RStrip(s) ==
    IF s # <<>> /\ s[Len(s)] \in Whitespace THEN RStrip(SubSeq(s, 1, Len(s) - 1)) ELSE s

Strip(s) == RStrip(LStrip(s))

LowerChar(c) == IF c = "A" THEN "a" ELSE IF c = "B" THEN "b" ELSE c

Lower(s) == [i \in DOMAIN s |-> LowerChar(s[i])]

-----------------------------------------------------------------------------
(* The database: tables tasks and plans, and the UUID generator *)

ThisProject == "P1"     \* the project the agent is bound to
OtherProject == "P2"

DB == [tasks |-> tasks, plans |-> plans, uuid_seq |-> uuid_seq]

\* TaskRepository.create: one row, committed; status and order take the
\* column defaults ("todo", NULL); priority is `data.priority or "medium"`
TaskRepository_create(db, project_id, data) ==
    LET task == [id |-> db.uuid_seq + 1,
                 project_id |-> project_id,
                 parent_task_id |-> data.parent_task_id,
                 title |-> data.title,
                 priority |-> IF data.priority.isnull THEN "medium" ELSE data.priority.v,
                 status |-> "todo",
                 order |-> Null]
    IN [db |-> [db EXCEPT !.tasks = Append(@, task), !.uuid_seq = @ + 1],
        task |-> task]

\* TaskRepository.get_by_id: the row or None
TaskRepository_get_by_id(db, task_id) ==
    LET hit == {i \in DOMAIN db.tasks : db.tasks[i].id = task_id}
    IN IF hit = {} THEN Null ELSE Some(db.tasks[CHOOSE i \in hit : TRUE])

Reverse(s) == [i \in DOMAIN s |-> s[Len(s) + 1 - i]]

\* TaskRepository.list_by_project: rows of the project passing the filters that
\* are truthy, newest first (ORDER BY created_at DESC)
TaskRepository_list_by_project(db, project_id, status, priority) ==
    LET Keep(t) == /\ t.project_id = project_id
                   /\ status.isnull \/ t.status = status.v
                   /\ priority.isnull \/ t.priority = priority.v
    IN Reverse(SelectSeq(db.tasks, Keep))

\* setattr(task, field, value) for the fields that were set on the TaskUpdate
SetFields(t, data) == [f \in DOMAIN t |-> IF f \in DOMAIN data THEN data[f] ELSE t[f]]

\* An update that would write the fields to every row
TaskRepository_update_every_row(db, task_id, data) ==
    LET db2 == [db EXCEPT !.tasks = [i \in DOMAIN @ |-> SetFields(@[i], data)]]
    IN [db |-> IF TaskRepository_get_by_id(db, task_id).isnull THEN db ELSE db2,
        task |-> TaskRepository_get_by_id(db2, task_id)]

\* TaskRepository.update: None when there is no such row, else the fields
\* that were set are written to it, committed, and the row is returned
TaskRepository_update(db, task_id, data) ==
    LET db2 == [db EXCEPT !.tasks = [i \in DOMAIN @ |->
                                       IF @[i].id = task_id THEN SetFields(@[i], data)
                                       ELSE @[i]]]
    IN IF TaskRepository_get_by_id(db, task_id).isnull
       THEN [db |-> db, task |-> Null]
       ELSE [db |-> db2, task |-> TaskRepository_get_by_id(db2, task_id)]

\* TaskRepository.delete with the foreign keys of the schema: subtasks keep
\* their row with parent_task_id SET NULL, a plan on the task is CASCADE-deleted
TaskRepository_delete(db, task_id) ==
    LET Gone(t) == t.id # task_id
        Orphan(t) == IF ~t.parent_task_id.isnull /\ t.parent_task_id.v = task_id
                     THEN [t EXCEPT !.parent_task_id = Null] ELSE t
        PlanStays(p) == p.parent_task_id # task_id
        left == SelectSeq(db.tasks, Gone)
    IN [db EXCEPT !.tasks = [i \in DOMAIN left |-> Orphan(left[i])],
                  !.plans = SelectSeq(@, PlanStays)]

\* The methods class TaskRepository defines
TaskRepository_methods ==
    {"create", "bulk_create", "get_by_id", "list_by_project", "update", "delete"}

\* TaskRepository.list_subtasks as ConfirmPlanTool calls it: the class defines
\* no such method, so the attribute lookup raises AttributeError
TaskRepository_list_subtasks(db, parent_id) ==
    LET IsSub(t) == ~t.parent_task_id.isnull /\ t.parent_task_id.v = parent_id
    IN IF "list_subtasks" \in TaskRepository_methods
       THEN [raised |-> FALSE, rows |-> SelectSeq(db.tasks, IsSub)]
       ELSE [raised |-> TRUE, rows |-> <<>>]

\* PlanRepository.create: one row, committed; status "active", current_step 0
PlanRepository_create(db, project_id, goal, parent_task_id, step_order) ==
    LET plan == [id |-> db.uuid_seq + 1,
                 project_id |-> project_id,
                 parent_task_id |-> parent_task_id,
                 goal |-> goal,
                 status |-> "active",
                 current_step |-> 0,
                 step_order |-> step_order]
    IN [db |-> [db EXCEPT !.plans = Append(@, plan), !.uuid_seq = @ + 1],
        plan |-> plan]

-----------------------------------------------------------------------------
(* Tools.  Executing a tool gives an outcome: the database it leaves, the    *)
(* intermediate events it yielded, and either its result or the exception   *)
(* that escaped it (error is str(exception)).                                *)

Ok(db, evs, result) ==
    [db |-> db, events |-> evs, raised |-> FALSE, result |-> result, error |-> ""]
Raise(db, evs, msg) ==
    [db |-> db, events |-> evs, raised |-> TRUE, result |-> Null, error |-> msg]

\* t["title"] raises KeyError('title') on an item without the key
HasTitle(t) == "title" \in DOMAIN t
KeyErrorTitle == "'title'"

\* SearchDocumentsTool.execute with no document uploaded: nothing is found
SearchDocumentsTool_execute(db, args) ==
    Ok(db, <<>>, [found |-> FALSE, message |-> <<"No relevant information found in the documents.">>,
                  results |-> <<>>])

\* ListTasksTool.execute
ListTasksTool_execute(db, project_id, args) ==
    LET status == IF "status" \in DOMAIN args THEN Some(args.status) ELSE Null
        priority == IF "priority" \in DOMAIN args THEN Some(args.priority) ELSE Null
        rows == TaskRepository_list_by_project(db, project_id, status, priority)
    IN IF rows = <<>>
       THEN Ok(db, <<>>, [found |-> FALSE, message |-> <<"No tasks found.">>, tasks |-> <<>>])
       ELSE Ok(db, <<>>,
               [found |-> TRUE,
                message |-> <<"Found", Len(rows), "tasks.">>,
                tasks |-> [i \in DOMAIN rows |->
                             [id |-> rows[i].id, title |-> rows[i].title,
                              status |-> rows[i].status, priority |-> rows[i].priority]]])

\* A propose_tasks that would store what it proposes
ProposeTasksTool_execute_storing(db, args) ==
    Ok([db EXCEPT !.tasks = Append(@, [id |-> db.uuid_seq + 1, project_id |-> "P1",
                                       parent_task_id |-> Null, title |-> <<"draft">>,
                                       priority |-> "medium", status |-> "todo",
                                       order |-> Null]),
                  !.uuid_seq = @ + 1],
       <<>>, [type |-> "proposal", tasks |-> args.tasks])

\* ProposeTasksTool.execute: builds the preview, touches no repository
ProposeTasksTool_execute(db, args) ==
    LET items == args.tasks
    IN IF \E i \in DOMAIN items : ~HasTitle(items[i])
       THEN Raise(db, <<>>, KeyErrorTitle)
       ELSE Ok(db, <<>>,
               [type |-> "proposal",
                message |-> <<"Proposed", Len(items), "task(s) for your approval.">>,
                tasks |-> [i \in DOMAIN items |->
                             [temp_id |-> <<"t", i>>,
                              title |-> items[i].title,
                              priority |-> GetPriority(items[i], "medium")]]])

\* ProposePlanTool.execute: builds the preview, touches no repository
ProposePlanTool_execute(db, args) ==
    LET steps == args.steps
    IN IF \E i \in DOMAIN steps : ~HasTitle(steps[i])
       THEN Raise(db, <<>>, KeyErrorTitle)
       ELSE Ok(db, <<>>,
               [type |-> "plan_proposal",
                message |-> <<"Proposed a", Len(steps), "-step plan for:", args.goal>>,
                goal |-> args.goal,
                steps |-> [i \in DOMAIN steps |->
                             [step_number |-> i,
                              title |-> steps[i].title,
                              priority |-> GetPriority(steps[i], "medium")]]])

\* existing_titles = {t.title.strip().lower() for t in rows}
NormalizedTitles(rows) == {Lower(Strip(rows[i].title)) : i \in DOMAIN rows}

\* A duplicate test that would compare the title as it is written
IsDuplicate_case_sensitive(title, existing_titles) == title \in existing_titles

\* the duplicate test of the confirm loops: title.lower() in existing_titles,
\* where title = t["title"].strip()
IsDuplicate(title, existing_titles) == Lower(title) \in existing_titles

\* ConfirmProposedTasksTool.execute_streaming, the for loop from item i on.
\* st = [db, created, skipped, events] is the state the loop has built.
RECURSIVE ConfirmTasksLoop(_, _, _, _, _)
ConfirmTasksLoop(st, project_id, items, i, existing_titles) ==
    IF i > Len(items) THEN [st EXCEPT !.raised = FALSE]
    ELSE IF ~HasTitle(items[i]) THEN [st EXCEPT !.raised = TRUE]
    ELSE
      LET title == Strip(items[i].title)
      IN IF IsDuplicate(title, existing_titles)
         THEN ConfirmTasksLoop([st EXCEPT !.skipped = Append(@, title)],
                               project_id, items, i + 1, existing_titles)
         ELSE
           LET data == [title |-> title,
                        priority |-> Some(GetPriority(items[i], "medium")),
                        parent_task_id |-> Null]
               made == TaskRepository_create(st.db, project_id, data)
               created == Append(st.created, made.task)
               ev == [type |-> "task_created",
                      task |-> [id |-> made.task.id, title |-> made.task.title,
                                priority |-> made.task.priority,
                                status |-> made.task.status],
                      progress |-> [current |-> Len(created),
                                    total |-> Len(items) - Len(st.skipped)]]
           IN ConfirmTasksLoop([st EXCEPT !.db = made.db, !.created = created,
                                          !.events = Append(@, ev)],
                               project_id, items, i + 1, existing_titles)

\* A result that would report success whatever was created
ConfirmTasksResult_always_success(st) ==
    Ok(st.db, st.events,
       [success |-> TRUE,
        message |-> <<"Created", Len(st.created), "task(s) successfully.",
                      "Skipped", Len(st.skipped)>>,
        count |-> Len(st.created),
        tasks |-> [i \in DOMAIN st.created |->
                     [id |-> st.created[i].id, title |-> st.created[i].title,
                      priority |-> st.created[i].priority]],
        skipped |-> ListOrNone(st.skipped)])

\* ConfirmProposedTasksTool.execute_streaming, after the for loop: the
\* result event for what the loop created and skipped
ConfirmTasksResult(st) ==
    IF st.raised THEN Raise(st.db, st.events, KeyErrorTitle)
    ELSE IF Len(st.created) = 0 /\ Len(st.skipped) > 0
    THEN Ok(st.db, st.events,
            [success |-> FALSE,
             message |-> <<"All", Len(st.skipped), "task(s) already exist">>,
             skipped |-> Some(st.skipped),
             count |-> 0,
             tasks |-> <<>>])
    ELSE Ok(st.db, st.events,
            [success |-> TRUE,
             message |-> <<"Created", Len(st.created), "task(s) successfully.",
                           "Skipped", Len(st.skipped)>>,
             count |-> Len(st.created),
             tasks |-> [i \in DOMAIN st.created |->
                          [id |-> st.created[i].id, title |-> st.created[i].title,
                           priority |-> st.created[i].priority]],
             skipped |-> ListOrNone(st.skipped)])

\* ConfirmProposedTasksTool.execute_streaming
ConfirmProposedTasksTool_execute_streaming(db, project_id, args) ==
    ConfirmTasksResult(
        ConfirmTasksLoop([db |-> db, created |-> <<>>, skipped |-> <<>>,
                          events |-> <<>>, raised |-> FALSE],
                         project_id, args.tasks, 1,
                         NormalizedTitles(
                             TaskRepository_list_by_project(db, project_id, Null, Null))))

\* ConfirmPlanTool.execute_streaming, the for loop from step i on (i is the
\* 1-based position, so the code's enumerate index is i - 1).
\* st = [db, step_task_ids, skipped, events] is the state the loop has built.
RECURSIVE ConfirmPlanLoop(_, _, _, _, _, _)
ConfirmPlanLoop(st, project_id, parent_id, steps, i, existing_titles) ==
    IF i > Len(steps) THEN [st EXCEPT !.raised = FALSE]
    ELSE IF ~HasTitle(steps[i]) THEN [st EXCEPT !.raised = TRUE]
    ELSE
      LET title == Strip(steps[i].title)
      IN IF IsDuplicate(title, existing_titles)
         THEN ConfirmPlanLoop([st EXCEPT !.skipped = Append(@, title)],
                              project_id, parent_id, steps, i + 1, existing_titles)
         ELSE
           LET data == [title |-> title,
                        priority |-> Some(GetPriority(steps[i], "medium")),
                        parent_task_id |-> Some(parent_id)]
               made == TaskRepository_create(st.db, project_id, data)
               \* task.order = i; commit; refresh
               task == [made.task EXCEPT !.order = Some(i - 1)]
               db2 == [made.db EXCEPT !.tasks[Len(made.db.tasks)] = task]
               ev == [type |-> "plan_step_created",
                      step_number |-> i,
                      total_steps |-> Len(steps),
                      task |-> [id |-> task.id, title |-> task.title,
                                priority |-> task.priority, status |-> task.status]]
           IN ConfirmPlanLoop([st EXCEPT !.db = db2,
                                         !.step_task_ids = Append(@, task.id),
                                         !.events = Append(@, ev)],
                              project_id, parent_id, steps, i + 1, existing_titles)

AttributeErrorListSubtasks == "'TaskRepository' object has no attribute 'list_subtasks'"

\* ConfirmPlanTool.execute_streaming, step 4: the plan row and the result
\* event for what the loop created
ConfirmPlanResult(st, made, parent_id, goal, steps) ==
    IF st.raised THEN Raise(st.db, st.events, KeyErrorTitle)
    ELSE Ok(made.db, st.events,
            [success |-> TRUE,
             message |-> <<"Created plan", goal, "with", Len(st.step_task_ids),
                           "step(s).", "Skipped", Len(st.skipped)>>,
             plan_id |-> made.plan.id,
             parent_task_id |-> parent_id,
             steps |-> [k \in DOMAIN st.step_task_ids |->
                          [task_id |-> st.step_task_ids[k],
                           title |-> steps[k].title,
                           step_number |-> k]]])

ConfirmPlanPersist(st, project_id, parent_id, goal, steps) ==
    ConfirmPlanResult(st,
                      PlanRepository_create(st.db, project_id, goal, parent_id,
                                            st.step_task_ids),
                      parent_id, goal, steps)

\* ConfirmPlanTool.execute_streaming, steps 2 and 3: the existing subtasks of
\* the parent, then one subtask per step
ConfirmPlanSteps(existing_subtasks, started, parent, project_id, goal, steps) ==
    IF existing_subtasks.raised
    THEN Raise(parent.db, <<started>>, AttributeErrorListSubtasks)
    ELSE ConfirmPlanPersist(
             ConfirmPlanLoop([db |-> parent.db, step_task_ids |-> <<>>, skipped |-> <<>>,
                              events |-> <<started>>, raised |-> FALSE],
                             project_id, parent.task.id, steps, 1,
                             NormalizedTitles(existing_subtasks.rows)),
             project_id, parent.task.id, goal, steps)

\* ConfirmPlanTool.execute_streaming, after step 1: the plan_started event
ConfirmPlanStarted(parent, project_id, goal, steps) ==
    ConfirmPlanSteps(TaskRepository_list_subtasks(parent.db, parent.task.id),
                     [type |-> "plan_started",
                      plan_goal |-> goal,
                      parent_task_id |-> parent.task.id,
                      total_steps |-> Len(steps)],
                     parent, project_id, goal, steps)

\* ConfirmPlanTool.execute_streaming; step 1 creates the parent task
ConfirmPlanTool_execute_streaming(db, project_id, args) ==
    ConfirmPlanStarted(
        TaskRepository_create(db, project_id,
            [title |-> args.goal, priority |-> Some("high"), parent_task_id |-> Null]),
        project_id, args.goal, args.steps)

\* UUID(task_id) raises ValueError on a string that is no UUID
ValueErrorUuid == "badly formed hexadecimal UUID string"

\* the keyword arguments of update_task that are not None
UpdateFields(args) == [f \in (DOMAIN args) \cap {"title", "status", "priority"} |-> args[f]]

\* UpdateTaskTool.execute
UpdateTaskTool_execute(db, project_id, args) ==
    LET task == TaskRepository_get_by_id(db, args.task_id.id)
        update_fields == UpdateFields(args)
        upd == TaskRepository_update(db, args.task_id.id, update_fields)
        db2 == upd.db
        updated == upd.task.v
    IN IF ~args.task_id.valid THEN Raise(db, <<>>, ValueErrorUuid)
       ELSE IF task.isnull
       THEN Ok(db, <<>>, [success |-> FALSE, error |-> <<"Task not found:", args.task_id.id>>])
       ELSE IF task.v.project_id # project_id
       THEN Ok(db, <<>>, [success |-> FALSE, error |-> <<"Task does not belong to this project">>])
       ELSE IF DOMAIN update_fields = {}
       THEN Ok(db, <<>>, [success |-> FALSE, error |-> <<"No fields to update">>])
       ELSE IF upd.task.isnull
       THEN Ok(db2, <<>>, [success |-> FALSE, error |-> <<"Failed to update task">>])
       ELSE Ok(db2, <<>>,
               [success |-> TRUE,
                message |-> <<"Task", updated.title, "updated successfully.">>,
                task |-> [id |-> updated.id, title |-> updated.title,
                          status |-> updated.status, priority |-> updated.priority]])

\* A delete that would not look at the task's project
DeleteTaskTool_execute_any_project(db, project_id, args) ==
    LET task == TaskRepository_get_by_id(db, args.task_id.id)
    IN IF ~args.task_id.valid THEN Raise(db, <<>>, ValueErrorUuid)
       ELSE IF task.isnull
       THEN Ok(db, <<>>, [success |-> FALSE, error |-> <<"Task not found:", args.task_id.id>>])
       ELSE Ok(TaskRepository_delete(db, args.task_id.id), <<>>,
               [success |-> TRUE,
                message |-> <<"Task", task.v.title, "deleted successfully.">>])

\* DeleteTaskTool.execute
DeleteTaskTool_execute(db, project_id, args) ==
    LET task == TaskRepository_get_by_id(db, args.task_id.id)
    IN IF ~args.task_id.valid THEN Raise(db, <<>>, ValueErrorUuid)
       ELSE IF task.isnull
       THEN Ok(db, <<>>, [success |-> FALSE, error |-> <<"Task not found:", args.task_id.id>>])
       ELSE IF task.v.project_id # project_id
       THEN Ok(db, <<>>, [success |-> FALSE, error |-> <<"Task does not belong to this project">>])
       ELSE Ok(TaskRepository_delete(db, args.task_id.id), <<>>,
               [success |-> TRUE,
                message |-> <<"Task", task.v.title, "deleted successfully.">>])

-----------------------------------------------------------------------------
(* Tool registry and dispatch *)

\* Agent._register_tools: the registered names, in registration order
RegisteredTools ==
    <<"search_documents", "list_tasks", "propose_tasks", "confirm_proposed_tasks",
      "update_task", "delete_task", "propose_plan", "confirm_plan">>

\* ToolRegistry.get: is a tool registered under the name?
ToolRegistry_get(name) == name \in Range(RegisteredTools)

\* BaseTool.supports_streaming and its two overrides
supports_streaming(name) == name \in {"confirm_proposed_tasks", "confirm_plan"}

\* the parameters of each tool's execute: those without a default, and all
RequiredParameters(name) ==
    CASE name = "search_documents" -> {"query"}
      [] name = "list_tasks" -> {}
      [] name \in {"propose_tasks", "confirm_proposed_tasks"} -> {"tasks"}
      [] name \in {"propose_plan", "confirm_plan"} -> {"goal", "steps"}
      [] OTHER -> {"task_id"}

Parameters(name) ==
    RequiredParameters(name) \cup
    CASE name = "search_documents" -> {"top_k"}
      [] name = "list_tasks" -> {"status", "priority"}
      [] name = "update_task" -> {"title", "description", "status", "priority",
                                   "assignee", "due_date"}
      [] OTHER -> {}

TypeErrorUnexpected(key) == "execute() got an unexpected keyword argument '" \o key \o "'"
TypeErrorMissing(key) == "execute() missing 1 required positional argument: '" \o key \o "'"
KeyErrorOf(key) == "'" \o key \o "'"

\* the keys of **args that execute has no parameter for, and its parameters
\* without a default that **args does not give
UnexpectedKeys(name, args) == (DOMAIN args) \ Parameters(name)
MissingKeys(name, args) == RequiredParameters(name) \ (DOMAIN args)

\* execute_streaming(self, **kwargs) takes any keywords; kwargs["tasks"],
\* kwargs["goal"], kwargs["steps"] raise KeyError on a key that is not there
StreamingBindError(name, args) ==
    IF MissingKeys(name, args) = {} THEN ""
    ELSE IF "goal" \in MissingKeys(name, args) THEN KeyErrorOf("goal")
    ELSE KeyErrorOf(CHOOSE k \in MissingKeys(name, args) : TRUE)

\* execute(self, <parameters>) called as execute(**args): TypeError on a
\* keyword it has no parameter for, or a missing required one
BindError(name, args) ==
    IF UnexpectedKeys(name, args) # {}
    THEN TypeErrorUnexpected(CHOOSE k \in UnexpectedKeys(name, args) : TRUE)
    ELSE IF MissingKeys(name, args) # {}
    THEN TypeErrorMissing(CHOOSE k \in MissingKeys(name, args) : TRUE)
    ELSE ""

\* tool.execute_streaming(**args) of a tool that overrides it
Tool_execute_streaming(name, db, args) ==
    IF StreamingBindError(name, args) # ""
    THEN Raise(db, <<>>, StreamingBindError(name, args))
    ELSE IF name = "confirm_proposed_tasks"
    THEN ConfirmProposedTasksTool_execute_streaming(db, ThisProject, args)
    ELSE ConfirmPlanTool_execute_streaming(db, ThisProject, args)

\* tool.execute(**args); the confirm tools pass their parameters on to
\* execute_streaming, drain it and keep the data of its result event
Tool_execute(name, db, args) ==
    IF BindError(name, args) # "" THEN Raise(db, <<>>, BindError(name, args))
    ELSE
    CASE name = "search_documents" -> SearchDocumentsTool_execute(db, args)
      [] name = "list_tasks" -> ListTasksTool_execute(db, ThisProject, args)
      [] name = "propose_tasks" -> ProposeTasksTool_execute(db, args)
      [] name = "propose_plan" -> ProposePlanTool_execute(db, args)
      [] name = "update_task" -> UpdateTaskTool_execute(db, ThisProject, args)
      [] name = "delete_task" -> DeleteTaskTool_execute(db, ThisProject, args)
      [] OTHER -> [Tool_execute_streaming(name, db, args) EXCEPT !.events = <<>>]

\* A forwarding that would pass the tool's event on as it is
WithToolName_untagged(event, tool_name) == event

\* {**event, "tool_name": tool_name}
WithToolName(event, tool_name) ==
    [f \in DOMAIN event \cup {"tool_name"} |->
        IF f = "tool_name" THEN tool_name ELSE event[f]]

\* What the dispatch of one tool call comes to: the database it leaves, the
\* events forwarded, and either the result recorded for the call or, when
\* escaped, an exception that leaves the loop and run / run_streaming with it.

\* A dispatch that would raise on a name the registry does not hold
UnknownToolDispatch_raising(tool_name, db) ==
    [db |-> db, forwarded |-> <<>>, escaped |-> TRUE, result |-> Null]

\* the else branch: no tool of that name
UnknownToolDispatch(tool_name, db) ==
    [db |-> db, forwarded |-> <<>>, escaped |-> FALSE,
     result |-> [error |-> "Unknown tool: " \o tool_name]]

\* A dispatch without the try/except: the tool's exception escapes
Unguarded(outcome, tool_name) ==
    [db |-> outcome.db,
     forwarded |-> [i \in DOMAIN outcome.events |->
                       [f \in DOMAIN outcome.events[i] \cup {"tool_name"} |->
                           IF f = "tool_name" THEN tool_name ELSE outcome.events[i][f]]],
     escaped |-> outcome.raised,
     result |-> outcome.result]

\* the try/except Exception around the tool: forwards the events the tool
\* yielded (given the tool name); an exception becomes the result
Guarded(outcome, tool_name) ==
    [db |-> outcome.db,
     forwarded |-> [i \in DOMAIN outcome.events |->
                       WithToolName(outcome.events[i], tool_name)],
     escaped |-> FALSE,
     result |-> IF outcome.raised THEN [error |-> outcome.error] ELSE outcome.result]

\* Agent.run, "Get and execute tool"
RunDispatch(tool_name, tool_args, db) ==
    IF ToolRegistry_get(tool_name)
    THEN Guarded(Tool_execute(tool_name, db, tool_args), tool_name)
    ELSE UnknownToolDispatch(tool_name, db)

\* Agent.run_streaming, "Execute tool"
StreamDispatch(tool_name, tool_args, db) ==
    IF ToolRegistry_get(tool_name)
    THEN IF supports_streaming(tool_name)
         THEN Guarded(Tool_execute_streaming(tool_name, db, tool_args), tool_name)
         ELSE Guarded(Tool_execute(tool_name, db, tool_args), tool_name)
    ELSE UnknownToolDispatch(tool_name, db)

-----
(* Conversation memory *)

Str(s) == [str |-> s]           \* a message content that is a string
Blocks(b) == [blocks |-> b]     \* a message content that is a list of blocks

\* ChatRepository.create: one row appended
ChatRepository_create(rows, project_id, role, content, tool_calls) ==
    Append(rows, [project_id |-> project_id, role |-> role, content |-> content,
                  tool_calls |-> tool_calls])

\* ChatRepository.list_by_project: ORDER BY created_at ASC LIMIT limit
ChatRepository_list_by_project(rows, project_id, limit) ==
    LET OfProject(m) == m.project_id = project_id
        mine == SelectSeq(rows, OfProject)
    IN SubSeq(mine, 1, IF Len(mine) < limit THEN Len(mine) ELSE limit)

\* f"hist_{id(msg)}_{i}": id(msg) is the identity of the loaded row object,
\* distinct for the rows of one load; j is the row's place in that load
HistId(j, i) == <<"hist", j, i>>

\* msg.tool_calls.get("calls", []) for a truthy msg.tool_calls
CallsOf(msg) ==
    IF ~msg.tool_calls.isnull /\ "calls" \in DOMAIN msg.tool_calls.v
    THEN msg.tool_calls.v.calls ELSE <<>>

\* the turns AgentMemory.get_chat_history makes of the j-th loaded row
FormatMessage(msg, j) ==
    LET calls == CallsOf(msg)
        text == IF msg.content # "" THEN <<[type |-> "text", text |-> msg.content]>> ELSE <<>>
        uses == [i \in DOMAIN calls |->
                    [type |-> "tool_use", id |-> HistId(j, i - 1),
                     name |-> DictGet(calls[i], "tool_name", "unknown"),
                     input |-> DictGet(calls[i], "arguments", <<>>)]]
        results == [i \in DOMAIN calls |->
                    [type |-> "tool_result", tool_use_id |-> HistId(j, i - 1),
                     content |-> JsonDumps(DictGet(calls[i], "result", <<>>))]]
    IN IF msg.role = "assistant" /\ calls # <<>>
       THEN <<[role |-> "assistant", content |-> Blocks(text \o uses)],
              [role |-> "user", content |-> Blocks(results)]>>
       ELSE <<[role |-> msg.role, content |-> Str(msg.content)]>>

RECURSIVE FormatFrom(_, _)
FormatFrom(rows, j) ==
    IF j > Len(rows) THEN <<>> ELSE FormatMessage(rows[j], j) \o FormatFrom(rows, j + 1)

\* AgentMemory.get_chat_history
get_chat_history(rows, project_id, limit) ==
    FormatFrom(ChatRepository_list_by_project(rows, project_id, limit), 1)

\* A save that would drop the tool-call log
save_message_without_calls(rows, project_id, role, content, tool_calls) ==
    ChatRepository_create(rows, project_id, role, content, Null)

\* AgentMemory.save_message
save_message(rows, project_id, role, content, tool_calls) ==
    ChatRepository_create(rows, project_id, role, content, tool_calls)

\* A delete that would forget its WHERE clause
ChatRepository_clear_history_everything(rows, project_id) ==
    [rows |-> <<>>, rowcount |-> Len(rows)]

\* ChatRepository.clear_history: DELETE ... WHERE project_id = :project_id,
\* commit, and the number of rows deleted
ChatRepository_clear_history(rows, project_id) ==
    LET OfProject(m) == m.project_id = project_id
        Others(m) == m.project_id # project_id
    IN [rows |-> SelectSeq(rows, Others),
        rowcount |-> Len(SelectSeq(rows, OfProject))]

\* AgentMemory.clear_history
clear_history(rows, project_id) == ChatRepository_clear_history(rows, project_id)

-----------------------------------------------------------------------------
(* The LLM, as the loop sees it: whatever normalized result the provider    *)
(* hands back.  The model draws it from a menu of tool calls.               *)

max_iterations == 10    \* Agent.run / Agent.run_streaming
HistoryLimit == 10      \* get_chat_history(limit=10)

\* Tool calls the LLM may request out of its free menu, in the first response
\* of a run.  After that response it can still answer, or ask for list_tasks
\* again and again.
MaxFreeCalls == 2

TitleA == <<"A">>
TitleAPadded == <<" ", "A">>
TitleB == <<"b">>
Goal == <<"g", " ">>

ListTasksCall == [name |-> "list_tasks", arguments |-> <<>>]

FreeCalls ==
    { ListTasksCall,
      \* two well-formed tasks
      [name |-> "confirm_proposed_tasks",
       arguments |-> [tasks |-> <<[title |-> TitleAPadded], [title |-> TitleB]>>]],
      \* the second task has no title: KeyError after the first was created
      [name |-> "confirm_proposed_tasks",
       arguments |-> [tasks |-> <<[title |-> TitleB, priority |-> "high"],
                                  [priority |-> "low"]>>]],
      \* CreateTaskTool is not registered
      [name |-> "create_task", arguments |-> [title |-> TitleB]],
      [name |-> "confirm_plan",
       arguments |-> [goal |-> Goal, steps |-> <<[title |-> TitleB]>>]],
      \* a task_id that is no UUID: ValueError
      [name |-> "update_task",
       arguments |-> [task_id |-> [valid |-> FALSE, id |-> 0], status |-> "done"]] }

SeqsUpTo(S, n) == UNION {[1..k -> S] : k \in 1..n}

\* the id the provider gives the k-th tool call of its n-th result
LLMToolCallId(n, k) == <<"toolu", n, k>>

\* a normalized LLM result {content, tool_calls, stop_reason}
LLMResult(content, calls, n) ==
    [content |-> content,
     tool_calls |-> [k \in DOMAIN calls |->
                       [id |-> LLMToolCallId(n, k), name |-> calls[k].name,
                        arguments |-> calls[k].arguments]],
     stop_reason |-> IF calls = <<>> THEN "end_turn" ELSE "tool_use"]

Apology == "I apologize, but I wasn't able to complete the request. Please try again."

\* What the LLM may answer when it has requested free tool calls so far:
\* a final answer, with or without text; as its first response a turn of free
\* tool calls, with or without text; later list_tasks, without text.
LLMChoices(free) ==
    {[content |-> c, calls |-> <<>>] : c \in {"", "Done."}}
    \cup (IF free = 0
          THEN {[content |-> c, calls |-> cs] :
                  c \in {"", "Let me check."}, cs \in SeqsUpTo(FreeCalls, MaxFreeCalls)}
          ELSE {[content |-> "", calls |-> <<ListTasksCall>>]})

-----------------------------------------------------------------------------
(* Agent.run and Agent.run_streaming *)

NoResponse == [content |-> "", tool_calls |-> <<>>, stop_reason |-> "none"]

\* "Build messages for LLM": the history, plus the user message unless the
\* history already ends with that content
BuildMessages(history, msg) ==
    IF history = <<>> \/ history[Len(history)].content # Str(msg)
    THEN Append(history, [role |-> "user", content |-> Str(msg)])
    ELSE history

\* Turns that would carry the tool results last to first
TurnMessages_results_reversed(resp, results) ==
    LET uses == [k \in DOMAIN resp.tool_calls |->
                    [type |-> "tool_use", id |-> resp.tool_calls[k].id,
                     name |-> resp.tool_calls[k].name,
                     input |-> resp.tool_calls[k].arguments]]
        tool_result_content ==
                [k \in DOMAIN results |->
                    [type |-> "tool_result",
                     tool_use_id |-> results[Len(results) + 1 - k].tool_use_id,
                     content |-> JsonDumps(results[Len(results) + 1 - k].result)]]
    IN <<[role |-> "assistant", content |-> Blocks(uses)],
         [role |-> "user", content |-> Blocks(tool_result_content)]>>

\* "Add assistant message with tool use to history" and "Add tool results":
\* the two turns a tool-calling iteration appends to messages
TurnMessages(resp, results) ==
    LET text == IF resp.content # "" THEN <<[type |-> "text", text |-> resp.content]>> ELSE <<>>
        uses == [k \in DOMAIN resp.tool_calls |->
                    [type |-> "tool_use", id |-> resp.tool_calls[k].id,
                     name |-> resp.tool_calls[k].name,
                     input |-> resp.tool_calls[k].arguments]]
        tool_result_content ==
                [k \in DOMAIN results |->
                    [type |-> "tool_result", tool_use_id |-> results[k].tool_use_id,
                     content |-> JsonDumps(results[k].result)]]
    IN <<[role |-> "assistant", content |-> Blocks(text \o uses)],
         [role |-> "user", content |-> Blocks(tool_result_content)]>>

\* the value run returns
RunReturn(message, calls) == [message |-> message, tool_calls |-> ListOrNone(calls)]

\* A response event that would always carry a list, never None
ResponseEvent_list_always(message, calls) ==
    [type |-> "response", message |-> message, tool_calls |-> Some(calls)]

\* the response event of run_streaming
ResponseEvent(message, calls) ==
    [type |-> "response", message |-> message, tool_calls |-> ListOrNone(calls)]

\* A hint that would name the first tool call of the run, not the last
ThinkingEvent_first_tool(it, calls) ==
    [type |-> "thinking", stage |-> "calling_llm", iteration |-> it,
     has_tool_calls |-> Len(calls) > 0,
     last_tool |-> IF Len(calls) > 0 THEN Some(calls[1].tool_name) ELSE Null]

\* the thinking event emitted before an LLM call
ThinkingEvent(it, calls) ==
    [type |-> "thinking", stage |-> "calling_llm", iteration |-> it,
     has_tool_calls |-> Len(calls) > 0,
     last_tool |-> IF Len(calls) > 0 THEN Some(calls[Len(calls)].tool_name) ELSE Null]

\* A loop test that would let one more iteration through
LoopContinues_inclusive(it) == it <= max_iterations

\* the loop test `while iteration < max_iterations`
LoopContinues(it) == it < max_iterations

\* "Save user message", "Get chat history", "Build messages" of either entry point
Begin(m, msg) ==
    /\ pc = "idle"
    /\ mode' = m
    /\ user_message' = msg
    /\ chat' = save_message(chat, ThisProject, "user", msg, Null)
    /\ messages' = BuildMessages(get_chat_history(chat', ThisProject, HistoryLimit), msg)
    /\ pc' = "loop"
    /\ UNCHANGED <<dbvars, iteration, all_tool_calls, response, tool_results, llm_calls,
                   free_calls, events, returned, op>>

UserMessages == {"create them"}

RunStart == \E msg \in UserMessages : Begin("run", msg)
StreamStart == \E msg \in UserMessages : Begin("stream", msg)

\* run: one more iteration, the LLM call and its result
RunCallLLM ==
    /\ mode = "run" /\ pc = "loop" /\ LoopContinues(iteration)
    /\ iteration' = iteration + 1
    /\ llm_calls' = llm_calls + 1
    /\ \E ch \in LLMChoices(free_calls) :
        /\ response' = LLMResult(ch.content, ch.calls, llm_calls + 1)
        /\ free_calls' = IF free_calls = 0 THEN Len(ch.calls) ELSE free_calls
    /\ pc' = "respond"
    /\ UNCHANGED <<dbvars, chat, mode, user_message, messages, all_tool_calls,
                   tool_results, events, returned, op>>

\* run_streaming: the thinking event, the LLM call, its text deltas forwarded,
\* and its result event, if it sent one
StreamCallLLM ==
    /\ mode = "stream" /\ pc = "loop" /\ LoopContinues(iteration)
    /\ iteration' = iteration + 1
    /\ llm_calls' = llm_calls + 1
    /\ \/ \E ch \in LLMChoices(free_calls) :
            /\ response' = LLMResult(ch.content, ch.calls, llm_calls + 1)
            /\ free_calls' = IF free_calls = 0 THEN Len(ch.calls) ELSE free_calls
            /\ events' = events \o <<ThinkingEvent(iteration + 1, all_tool_calls)>>
                           \o (IF ch.content # ""
                               THEN <<[type |-> "text_delta", text |-> ch.content]>>
                               ELSE <<>>)
       \/ \* the stream ended without a result event: response is None
          /\ response' = [content |-> "", tool_calls |-> <<>>, stop_reason |-> "error"]
          /\ events' = Append(events, ThinkingEvent(iteration + 1, all_tool_calls))
          /\ UNCHANGED free_calls
    /\ pc' = "respond"
    /\ UNCHANGED <<dbvars, chat, mode, user_message, messages, all_tool_calls,
                   tool_results, returned, op>>

\* run: "If no tool calls, we have our final response"
RunFinal ==
    /\ mode = "run" /\ pc = "respond" /\ response.tool_calls = <<>>
    /\ chat' = save_message(chat, ThisProject, "assistant", response.content,
                            IF Len(all_tool_calls) > 0
                            THEN Some([calls |-> all_tool_calls]) ELSE Null)
    /\ returned' = Some(RunReturn(response.content, all_tool_calls))
    /\ pc' = "done"
    /\ UNCHANGED <<dbvars, mode, user_message, iteration, messages, all_tool_calls,
                   response, tool_results, llm_calls, free_calls, events, op>>

\* run_streaming: the same, ending with the response event
StreamFinal ==
    /\ mode = "stream" /\ pc = "respond" /\ response.tool_calls = <<>>
    /\ chat' = save_message(chat, ThisProject, "assistant", response.content,
                            IF Len(all_tool_calls) > 0
                            THEN Some([calls |-> all_tool_calls]) ELSE Null)
    /\ events' = Append(events, ResponseEvent(response.content, all_tool_calls))
    /\ pc' = "done"
    /\ UNCHANGED <<dbvars, mode, user_message, iteration, messages, all_tool_calls,
                   response, tool_results, llm_calls, free_calls, returned, op>>

\* A for loop that would take the tool calls last to first
NextToolCall_reversed ==
    response.tool_calls[Len(response.tool_calls) - Len(tool_results)]

\* the tool call the for loop is at
NextToolCall == response.tool_calls[Len(tool_results) + 1]

\* run: one pass of `for tool_call in response["tool_calls"]`
RunExecuteTool ==
    /\ mode = "run" /\ pc = "respond"
    /\ Len(tool_results) < Len(response.tool_calls)
    /\ \E tool_call \in {NextToolCall} :
       \E d \in {RunDispatch(tool_call.name, tool_call.arguments, DB)} :
          /\ tasks' = d.db.tasks /\ plans' = d.db.plans /\ uuid_seq' = d.db.uuid_seq
          /\ IF d.escaped
             THEN pc' = "raised" /\ UNCHANGED <<tool_results, all_tool_calls>>
             ELSE /\ tool_results' = Append(tool_results,
                                       [tool_use_id |-> tool_call.id, result |-> d.result])
                  /\ all_tool_calls' = Append(all_tool_calls,
                                         [tool_name |-> tool_call.name,
                                          arguments |-> tool_call.arguments,
                                          result |-> d.result])
                  /\ pc' = pc
    /\ UNCHANGED <<chat, mode, user_message, iteration, messages, response,
                   llm_calls, free_calls, events, returned, op>>

\* run_streaming: one pass of the for loop, with tool_start, the forwarded
\* events and tool_end
StreamExecuteTool ==
    /\ mode = "stream" /\ pc = "respond"
    /\ Len(tool_results) < Len(response.tool_calls)
    /\ \E tool_call \in {NextToolCall} :
       \E d \in {StreamDispatch(tool_call.name, tool_call.arguments, DB)} :
          /\ tasks' = d.db.tasks /\ plans' = d.db.plans /\ uuid_seq' = d.db.uuid_seq
          /\ IF d.escaped
             THEN /\ events' = events
                        \o <<[type |-> "tool_start", tool_name |-> tool_call.name,
                              arguments |-> tool_call.arguments]>>
                        \o d.forwarded
                  /\ pc' = "raised"
                  /\ UNCHANGED <<tool_results, all_tool_calls>>
             ELSE /\ events' = events
                        \o <<[type |-> "tool_start", tool_name |-> tool_call.name,
                              arguments |-> tool_call.arguments]>>
                        \o d.forwarded
                        \o <<[type |-> "tool_end", tool_name |-> tool_call.name,
                              result |-> d.result]>>
                  /\ tool_results' = Append(tool_results,
                                       [tool_use_id |-> tool_call.id, result |-> d.result])
                  /\ all_tool_calls' = Append(all_tool_calls,
                                         [tool_name |-> tool_call.name,
                                          arguments |-> tool_call.arguments,
                                          result |-> d.result])
                  /\ pc' = pc
    /\ UNCHANGED <<chat, mode, user_message, iteration, messages, response,
                   llm_calls, free_calls, returned, op>>

\* either entry point: the for loop is over, the two turns are appended to
\* messages and the while loop goes round
AppendTurn(m) ==
    /\ mode = m /\ pc = "respond"
    /\ response.tool_calls # <<>>
    /\ Len(tool_results) = Len(response.tool_calls)
    /\ messages' = messages \o TurnMessages(response, tool_results)
    /\ tool_results' = <<>>
    /\ pc' = "loop"
    /\ UNCHANGED <<dbvars, chat, mode, user_message, iteration, all_tool_calls, response,
                   llm_calls, free_calls, events, returned, op>>

RunAppendTurn == AppendTurn("run")
StreamAppendTurn == AppendTurn("stream")

\* run: "Max iterations reached"
RunMaxIterations ==
    /\ mode = "run" /\ pc = "loop" /\ ~LoopContinues(iteration)
    /\ returned' = Some(RunReturn(Apology, all_tool_calls))
    /\ pc' = "done"
    /\ UNCHANGED <<dbvars, chat, mode, user_message, iteration, messages, all_tool_calls,
                   response, tool_results, llm_calls, free_calls, events, op>>

\* run_streaming: "Max iterations reached"
StreamMaxIterations ==
    /\ mode = "stream" /\ pc = "loop" /\ ~LoopContinues(iteration)
    /\ events' = Append(events, ResponseEvent(Apology, all_tool_calls))
    /\ pc' = "done"
    /\ UNCHANGED <<dbvars, chat, mode, user_message, iteration, messages, all_tool_calls,
                   response, tool_results, llm_calls, free_calls, returned, op>>

-----------------------------------------------------------------------------
(* Rows the tables may hold before the modelled calls *)

TaskRow(id, project_id, title) ==
    [id |-> id, project_id |-> project_id, parent_task_id |-> Null, title |-> title,
     priority |-> "medium", status |-> "todo", order |-> Null]

NoOp == [kind |-> "none", n |-> 0]

AgentIdle ==
    /\ mode = "none" /\ pc = "idle" /\ user_message = "" /\ iteration = 0
    /\ messages = <<>> /\ all_tool_calls = <<>> /\ response = NoResponse
    /\ tool_results = <<>> /\ llm_calls = 0 /\ free_calls = 0
    /\ events = <<>> /\ returned = Null

\* a project with no task, or with one task titled "A"
AgentInitialTasks == {<<>>, <<TaskRow(1, ThisProject, TitleA)>>}

\* the conversation of a project with these tasks: none for the empty project,
\* else one earlier exchange whose answer used a tool
AgentInitialChat(rows) ==
    IF rows = <<>> THEN <<>>
    ELSE
      <<[project_id |-> ThisProject, role |-> "user", content |-> "plan it",
         tool_calls |-> Null],
        [project_id |-> ThisProject, role |-> "assistant", content |-> "Proposed.",
         tool_calls |-> Some([calls |-> <<[tool_name |-> "propose_tasks",
                                            arguments |-> [tasks |-> <<[title |-> TitleB]>>],
                                            result |-> [type |-> "proposal"]]>>])]>>

Init ==
    /\ tasks \in AgentInitialTasks
    /\ plans = <<>>
    /\ uuid_seq = Len(tasks)
    /\ chat = AgentInitialChat(tasks)
    /\ AgentIdle
    /\ op = NoOp

Next ==
    \/ RunStart \/ StreamStart
    \/ RunCallLLM \/ StreamCallLLM
    \/ RunFinal \/ StreamFinal
    \/ RunExecuteTool \/ StreamExecuteTool
    \/ RunAppendTurn \/ StreamAppendTurn
    \/ RunMaxIterations \/ StreamMaxIterations

Spec == Init /\ [][Next]_vars

-----------------------------------------------------------------------------
(* The consumer of run_streaming stops driving it: the generator stays      *)
(* suspended at the yield it had reached and is closed there                *)

\* A tool that would announce each task before it is inserted
ConfirmTasksYields_before_commit(db, args) ==
    LET At(j) == ConfirmProposedTasksTool_execute_streaming(
                     db, ThisProject, [args EXCEPT !.tasks = SubSeq(@, 1, j)])
        full == At(Len(args.tasks))
    IN {[db |-> At(j - 1).db, events |-> SubSeq(full.events, 1, Len(At(j).events))] :
          j \in {k \in 1..Len(args.tasks) :
                    ~At(k).raised /\ Len(At(k).events) > Len(At(k - 1).events)}}

\* ConfirmProposedTasksTool.execute_streaming suspended at a task_created
\* yield: the loop has dealt with the first j items, the j-th being the one
\* created; the database is what the loop has committed so far
ConfirmTasksYields(db, args) ==
    LET At(j) == ConfirmProposedTasksTool_execute_streaming(
                     db, ThisProject, [args EXCEPT !.tasks = SubSeq(@, 1, j)])
        full == At(Len(args.tasks))
    IN {[db |-> At(j).db, events |-> SubSeq(full.events, 1, Len(At(j).events))] :
          j \in {k \in 1..Len(args.tasks) :
                    ~At(k).raised /\ Len(At(k).events) > Len(At(k - 1).events)}}

\* ConfirmPlanTool.execute_streaming suspended at its plan_started yield, the
\* parent task committed; the generator raises before any later yield
ConfirmPlanYields(db, args) ==
    LET parent == TaskRepository_create(db, ThisProject,
                      [title |-> args.goal, priority |-> Some("high"),
                       parent_task_id |-> Null])
        full == ConfirmPlanTool_execute_streaming(db, ThisProject, args)
    IN {[db |-> parent.db, events |-> SubSeq(full.events, 1, 1)]}

ToolYields(name, db, args) ==
    IF ~(ToolRegistry_get(name) /\ supports_streaming(name)) THEN {}
    ELSE IF name = "confirm_proposed_tasks" THEN ConfirmTasksYields(db, args)
    ELSE ConfirmPlanYields(db, args)

\* the yields of one pass of the for loop of run_streaming: tool_start, the
\* events forwarded from the tool, tool_end; each with the database at that
\* yield and the events of the pass emitted up to it
StreamYields(tool_call, db) ==
    LET start == [type |-> "tool_start", tool_name |-> tool_call.name,
                  arguments |-> tool_call.arguments]
        d == StreamDispatch(tool_call.name, tool_call.arguments, db)
    IN {[db |-> db, events |-> <<start>>]}
       \cup {[db |-> y.db,
              events |-> <<start>> \o [i \in DOMAIN y.events |->
                                         WithToolName(y.events[i], tool_call.name)]] :
               y \in ToolYields(tool_call.name, db, tool_call.arguments)}
       \cup (IF d.escaped THEN {}
             ELSE {[db |-> d.db,
                    events |-> <<start>> \o d.forwarded
                                 \o <<[type |-> "tool_end", tool_name |-> tool_call.name,
                                       result |-> d.result]>>]})

\* A close that would undo what the interrupted tool call had committed
AbandonedDb_rolled_back(before, at) == before

\* closing the generator: no except / finally in run_streaming or in the
\* tools touches the database, which stays as it is at the yield
AbandonedDb(before, at) == at

\* the consumer stops: between two steps of the loop, or at a yield inside
\* the pass of the for loop that was next
StreamAbandon ==
    /\ mode = "stream" /\ pc \in {"loop", "respond"}
    /\ \/ UNCHANGED <<dbvars, events>>
       \/ /\ pc = "respond" /\ Len(tool_results) < Len(response.tool_calls)
          /\ \E y \in StreamYields(NextToolCall, DB) :
             \E db \in {AbandonedDb(DB, y.db)} :
                /\ tasks' = db.tasks /\ plans' = db.plans /\ uuid_seq' = db.uuid_seq
                /\ events' = events \o y.events
    /\ pc' = "abandoned"
    /\ UNCHANGED <<chat, mode, user_message, iteration, messages, all_tool_calls,
                   response, tool_results, llm_calls, free_calls, returned, op>>

AbandonNext ==
    \/ StreamStart \/ StreamCallLLM \/ StreamFinal \/ StreamExecuteTool
    \/ StreamAppendTurn \/ StreamMaxIterations \/ StreamAbandon

SpecAbandon == Init /\ [][AbandonNext]_vars

-----------------------------------------------------------------------------
(* POST /chat/stream: the handler send_message_stream, its request-scoped   *)
(* session `db` from Depends(get_db), and the generator event_stream with   *)
(* its own session `stream_db`                                              *)

\* A generator that would hand the agent the request-scoped session
AgentSession_request_scoped == "db"

\* Agent(stream_db, project_id, llm_config=llm_config)
AgentSession == "stream_db"

\* who the project of the X-Project-ID header belongs to
ProjectOwners == {"missing", "nobody", "current_user", "another_user"}

\* the request when the handler is entered: get_db has opened `db`
RouteEntered(owner) ==
    [kind |-> "send_message_stream", owner |-> owner, handler |-> "running",
     db |-> "open", stream_db |-> "none", generator |-> "none",
     agent_db |-> "none", sse |-> <<>>]

RouteInit ==
    /\ tasks \in AgentInitialTasks
    /\ plans = <<>>
    /\ uuid_seq = Len(tasks)
    /\ chat = AgentInitialChat(tasks)
    /\ AgentIdle
    /\ \E owner \in ProjectOwners : op = RouteEntered(owner)

\* verify_project_ownership raises HTTPException: 404 when there is no such
\* project, 403 when it is another user's
HandlerRejects ==
    /\ op.handler = "running"
    /\ op.owner \in {"missing", "another_user"}
    /\ op' = [op EXCEPT !.handler = "rejected"]
    /\ UNCHANGED <<dbvars, chat, agentvars>>

\* the project is the user's, or nobody's and claimed through `db`; the
\* settings are read, the generator is created and handed to
\* StreamingResponse, and the handler returns
HandlerReturns ==
    /\ op.handler = "running"
    /\ op.owner \in {"nobody", "current_user"}
    /\ op' = [op EXCEPT !.handler = "returned", !.owner = "current_user",
                        !.generator = "created"]
    /\ UNCHANGED <<dbvars, chat, agentvars>>

\* get_db is resumed after the handler: `finally: await session.close()`.
\* When the framework does so, before or while the response body is sent,
\* is not fixed by this code.
RequestSessionCloses ==
    /\ op.handler \in {"returned", "rejected"}
    /\ op.db = "open"
    /\ op' = [op EXCEPT !.db = "closed"]
    /\ UNCHANGED <<dbvars, chat, agentvars>>

\* the response body is first asked for: async_session_maker() opens
\* stream_db, the agent is built on its session, the "analyzing" item is sent
GeneratorStarts ==
    /\ op.generator = "created"
    /\ op' = [op EXCEPT !.generator = "running", !.stream_db = "open",
                        !.agent_db = AgentSession,
                        !.sse = Append(@, "thinking")]
    /\ UNCHANGED <<dbvars, chat, agentvars>>

\* `async for event in agent.run_streaming(data.message)`
GeneratorRuns ==
    /\ op.generator = "running"
    /\ \/ StreamStart \/ StreamCallLLM \/ StreamFinal \/ StreamExecuteTool
       \/ StreamAppendTurn \/ StreamMaxIterations

\* run_streaming is exhausted and "done" is sent, or it raised and "error"
\* is sent; the `async with` block is left and stream_db is closed
GeneratorEnds ==
    /\ op.generator = "running"
    /\ pc \in {"done", "raised"}
    /\ op' = [op EXCEPT !.generator = "ended", !.stream_db = "closed",
                        !.sse = Append(@, IF pc = "done" THEN "done" ELSE "error")]
    /\ UNCHANGED <<dbvars, chat, agentvars>>

RouteNext ==
    \/ HandlerRejects \/ HandlerReturns \/ RequestSessionCloses
    \/ GeneratorStarts \/ GeneratorRuns \/ GeneratorEnds

SpecRoute == RouteInit /\ [][RouteNext]_vars

-----------------------------------------------------------------------------
(* Agent.run and Agent.run_streaming side by side: the same project, the    *)
(* same user message and the same LLM results, first through run, then,     *)
(* from the same tables, through run_streaming                              *)

MaxTwinCalls == 2   \* tool calls in the first LLM result
MaxTwinTurns == 2   \* LLM results that ask for tools

\* tool calls the LLM may ask for: list_tasks; confirm_proposed_tasks with
\* the declared argument, with a key the schema does not declare beside it,
\* and with no argument at all (what the adapters make of arguments they
\* cannot parse)
TwinCalls ==
    { ListTasksCall,
      [name |-> "confirm_proposed_tasks",
       arguments |-> [tasks |-> <<[title |-> TitleAPadded], [title |-> TitleB]>>]],
      [name |-> "confirm_proposed_tasks",
       arguments |-> [tasks |-> <<[title |-> TitleB]>>, note |-> "x"]],
      [name |-> "confirm_proposed_tasks", arguments |-> <<>>] }

TwinFinal == [content |-> "Done.", calls |-> <<>>]
TwinListTurn == [content |-> "", calls |-> <<ListTasksCall>>]

\* the LLM results of one invocation, in order: tool turns, the first of
\* them free, and then the final answer
TwinScripts ==
    {<<TwinFinal>>}
    \cup {<<[content |-> "Let me check.", calls |-> cs]>>
            \o [i \in 1..k |-> TwinListTurn] \o <<TwinFinal>> :
            cs \in SeqsUpTo(TwinCalls, MaxTwinCalls), k \in 0..(MaxTwinTurns - 1)}

TwinInit ==
    /\ tasks \in AgentInitialTasks
    /\ plans = <<>>
    /\ uuid_seq = Len(tasks)
    /\ chat = AgentInitialChat(tasks)
    /\ AgentIdle
    /\ \E script \in TwinScripts :
         op = [kind |-> "twin", phase |-> "run", script |-> script,
               init |-> [tasks |-> tasks, chat |-> chat], run |-> Null]

TwinRunStart == op.phase = "run" /\ RunStart
TwinStreamStart == op.phase = "stream" /\ StreamStart

\* the LLM call of either entry point, answered by the next result of the script
TwinCallLLM ==
    /\ mode \in {"run", "stream"} /\ pc = "loop" /\ LoopContinues(iteration)
    /\ llm_calls < Len(op.script)
    /\ iteration' = iteration + 1
    /\ llm_calls' = llm_calls + 1
    /\ \E ch \in {op.script[llm_calls + 1]} :
        /\ response' = LLMResult(ch.content, ch.calls, llm_calls + 1)
        /\ events' = IF mode = "stream"
                     THEN events \o <<ThinkingEvent(iteration + 1, all_tool_calls)>>
                            \o (IF ch.content # ""
                                THEN <<[type |-> "text_delta", text |-> ch.content]>>
                                ELSE <<>>)
                     ELSE events
    /\ pc' = "respond"
    /\ UNCHANGED <<dbvars, chat, mode, user_message, messages, all_tool_calls,
                   tool_results, free_calls, returned, op>>

\* run is over: what it made, left and returned is kept, and the project is
\* put back as it was for run_streaming
TwinSwitch ==
    /\ op.phase = "run" /\ mode = "run" /\ pc \in {"done", "raised"}
    /\ op' = [op EXCEPT !.phase = "stream",
                        !.run = [tasks |-> tasks, plans |-> plans, chat |-> chat,
                                 messages |-> messages, llm_calls |-> llm_calls,
                                 all_tool_calls |-> all_tool_calls,
                                 returned |-> returned, pc |-> pc]]
    /\ tasks' = op.init.tasks /\ plans' = <<>> /\ uuid_seq' = Len(op.init.tasks)
    /\ chat' = op.init.chat
    /\ mode' = "none" /\ pc' = "idle" /\ user_message' = "" /\ iteration' = 0
    /\ messages' = <<>> /\ all_tool_calls' = <<>> /\ response' = NoResponse
    /\ tool_results' = <<>> /\ llm_calls' = 0 /\ free_calls' = 0
    /\ events' = <<>> /\ returned' = Null

TwinNext ==
    \/ TwinRunStart \/ TwinStreamStart \/ TwinCallLLM \/ TwinSwitch
    \/ RunFinal \/ StreamFinal
    \/ RunExecuteTool \/ StreamExecuteTool
    \/ RunAppendTurn \/ StreamAppendTurn

SpecTwin == TwinInit /\ [][TwinNext]_vars

-----------------------------------------------------------------------------
(* The propose and confirm tools called directly, on a project that may     *)
(* already hold tasks                                                       *)

MaxItems == 2       \* longest tasks / steps list passed to a tool
MaxConfirms == 1    \* confirm calls in one behaviour

\* items of a tasks / steps list: a padded title with a priority, a title
\* without one, and an item that has no title
Items ==
    { [title |-> TitleAPadded, priority |-> "high"],
      [title |-> TitleB],
      [priority |-> "low"] }

ItemLists == {<<>>} \cup SeqsUpTo(Items, MaxItems)

\* what the tasks table may hold before the calls
ToolInitialTasks ==
    { <<>>,
      <<TaskRow(1, ThisProject, TitleA)>>,
      \* "b" belongs to another project; "a " was stored with its padding
      <<TaskRow(1, OtherProject, TitleB), TaskRow(2, ThisProject, <<"a", " ">>),
        TaskRow(3, ThisProject, <<"B">>)>>,
      \* a task and a subtask of it
      <<TaskRow(1, ThisProject, <<"B">>),
        [TaskRow(2, ThisProject, <<"a">>) EXCEPT !.parent_task_id = Some(1),
                                                 !.order = Some(0)]>> }

ToolsInit ==
    /\ tasks \in ToolInitialTasks
    /\ plans = <<>>
    /\ uuid_seq = Len(tasks)
    /\ chat = <<>>
    /\ AgentIdle
    /\ op = NoOp

\* one direct call of a tool: the outcome is applied to the tables and kept,
\* with the arguments and the tables as they were, in op
Applied(kind, args, outcome, confirms) ==
    /\ tasks' = outcome.db.tasks
    /\ plans' = outcome.db.plans
    /\ uuid_seq' = outcome.db.uuid_seq
    /\ op' = [kind |-> kind, n |-> op.n + confirms, args |-> args,
              pre |-> [tasks |-> tasks, plans |-> plans, chat |-> chat],
              outcome |-> outcome]
    /\ UNCHANGED <<chat, agentvars>>

CallProposeTasks ==
    /\ op.n < MaxConfirms
    /\ \E items \in ItemLists : \E args \in {[tasks |-> items]} :
         Applied("propose_tasks", args, Tool_execute("propose_tasks", DB, args), 0)

CallProposePlan ==
    /\ op.n < MaxConfirms
    /\ \E steps \in ItemLists : \E args \in {[goal |-> Goal, steps |-> steps]} :
         Applied("propose_plan", args, Tool_execute("propose_plan", DB, args), 0)

CallConfirmTasks ==
    /\ op.n < MaxConfirms
    /\ \E items \in ItemLists : \E args \in {[tasks |-> items]} :
         Applied("confirm_proposed_tasks", args,
                 Tool_execute_streaming("confirm_proposed_tasks", DB, args), 1)

CallConfirmPlan ==
    /\ op.n < MaxConfirms
    /\ \E steps \in ItemLists : \E args \in {[goal |-> Goal, steps |-> steps]} :
         Applied("confirm_plan", args,
                 Tool_execute_streaming("confirm_plan", DB, args), 1)

\* confirm_proposed_tasks called once more, right after it returned or raised,
\* with the task list of the call before
CallConfirmTasksAgain ==
    /\ op.kind = "confirm_proposed_tasks"
    /\ \E o \in {Tool_execute_streaming("confirm_proposed_tasks", DB, op.args)} :
        /\ tasks' = o.db.tasks
        /\ plans' = o.db.plans
        /\ uuid_seq' = o.db.uuid_seq
        /\ op' = [kind |-> "confirm_proposed_tasks_again", n |-> op.n, args |-> op.args,
                  pre |-> [tasks |-> tasks, plans |-> plans, chat |-> chat],
                  outcome |-> o, first |-> op.outcome]
    /\ UNCHANGED <<chat, agentvars>>

\* execute_streaming of confirm_proposed_tasks driven by a consumer that
\* stops asking at one of its task_created yields
CallConfirmTasksSuspended ==
    /\ op.n < MaxConfirms
    /\ \E items \in ItemLists : \E args \in {[tasks |-> items]} :
       \E y \in ConfirmTasksYields(DB, args) :
         Applied("confirm_proposed_tasks_suspended", args,
                 [db |-> y.db, events |-> y.events, raised |-> FALSE,
                  result |-> Null, error |-> ""], 1)

\* {"type": "result", "data": <result>}
ResultEvent(data) == [type |-> "result", data |-> data]

\* An all-duplicates branch that would yield its result and go on to the
\* success result below it
ConfirmTasksFinalYields_falls_through(st) ==
    (IF Len(st.created) = 0 /\ Len(st.skipped) > 0
     THEN <<ResultEvent(ConfirmTasksResult(st).result)>> ELSE <<>>)
    \o <<ResultEvent(ConfirmTasksResult_always_success(st).result)>>

\* ConfirmProposedTasksTool.execute_streaming after its for loop: the result
\* event of the all-duplicates branch and return, or the success result event
ConfirmTasksFinalYields(st) == <<ResultEvent(ConfirmTasksResult(st).result)>>

\* every event ConfirmProposedTasksTool.execute_streaming yields when it is
\* driven to its end: those of the loop, then, unless an item raised, the
\* final ones
ConfirmTasksGenerator(db, project_id, args) ==
    LET st == ConfirmTasksLoop([db |-> db, created |-> <<>>, skipped |-> <<>>,
                                events |-> <<>>, raised |-> FALSE],
                               project_id, args.tasks, 1,
                               NormalizedTitles(
                                   TaskRepository_list_by_project(db, project_id, Null, Null)))
    IN IF st.raised THEN st.events ELSE st.events \o ConfirmTasksFinalYields(st)

\* every event ConfirmPlanTool.execute_streaming yields when it is driven to
\* its end: plan_started, the plan_step_created events and, when nothing
\* raised, the result event
ConfirmPlanGenerator(db, project_id, args) ==
    LET o == ConfirmPlanTool_execute_streaming(db, project_id, args)
    IN IF o.raised THEN o.events ELSE Append(o.events, ResultEvent(o.result))

\* BaseTool.execute_streaming, the default of the tools that do not override
\* it: result = await self.execute(**kwargs); yield the result event
BaseTool_execute_streaming(name, db, args) ==
    LET o == Tool_execute(name, db, args)
    IN IF o.raised THEN <<>> ELSE <<ResultEvent(o.result)>>

\* tool.execute_streaming(**args) driven to its end: the outcome of the call
\* and, in yielded, every event the generator gave
ExecuteStreaming(name, db, args) ==
    IF ~supports_streaming(name)
    THEN [outcome |-> Tool_execute(name, db, args),
          yielded |-> BaseTool_execute_streaming(name, db, args)]
    ELSE [outcome |-> Tool_execute_streaming(name, db, args),
          yielded |-> IF StreamingBindError(name, args) # "" THEN <<>>
                      ELSE IF name = "confirm_proposed_tasks"
                      THEN ConfirmTasksGenerator(db, ThisProject, args)
                      ELSE ConfirmPlanGenerator(db, ThisProject, args)]

\* the keyword arguments a tool is called with here
StreamingArgs(name) ==
    IF name = "list_tasks" THEN {<<>>, [status |-> "todo"]}
    ELSE IF name \in {"propose_plan", "confirm_plan"}
    THEN {[goal |-> Goal, steps |-> steps] : steps \in ItemLists}
    ELSE {[tasks |-> items] : items \in ItemLists}

\* execute_streaming of any tool consumed to its end, as run_streaming and the
\* execute of the confirm tools consume it
CallExecuteStreaming ==
    /\ op.n < MaxConfirms
    /\ \E name \in {"list_tasks", "propose_tasks", "propose_plan",
                    "confirm_proposed_tasks", "confirm_plan"} :
       \E args \in StreamingArgs(name) :
       \E g \in {ExecuteStreaming(name, DB, args)} :
        /\ tasks' = g.outcome.db.tasks
        /\ plans' = g.outcome.db.plans
        /\ uuid_seq' = g.outcome.db.uuid_seq
        /\ op' = [kind |-> "execute_streaming", n |-> op.n + 1, name |-> name,
                  args |-> args,
                  pre |-> [tasks |-> tasks, plans |-> plans, chat |-> chat],
                  outcome |-> g.outcome, yielded |-> g.yielded]
    /\ UNCHANGED <<chat, agentvars>>

ToolsNext ==
    \/ CallProposeTasks \/ CallProposePlan \/ CallConfirmTasks \/ CallConfirmPlan
    \/ CallConfirmTasksAgain \/ CallConfirmTasksSuspended \/ CallExecuteStreaming

SpecTools == ToolsInit /\ [][ToolsNext]_vars

-----------------------------------------------------------------------------
(* Two confirm_proposed_tasks calls of two turns on the same project, each    *)
(* with its own session, interleaved at their awaits and yields              *)

MaxConcurrentItems == 2   \* longest tasks list of a concurrent call

Callers == {1, 2}

ConcurrentItemLists ==
    {<<>>} \cup SeqsUpTo({[title |-> TitleAPadded, priority |-> "high"], [title |-> TitleB]},
                         MaxConcurrentItems)

\* A load that would find no title
LoadedTitles_none(db, project_id) == {}

\* existing = await repo.list_by_project(self.project_id), and the set
\* existing_titles built from it
LoadedTitles(db, project_id) ==
    NormalizedTitles(TaskRepository_list_by_project(db, project_id, Null, Null))

\* a call that has not started: kwargs["tasks"] bound, nothing loaded
ConcurrentCall(items) ==
    [tasks |-> items, pc |-> "start", i |-> 1, existing_titles |-> {}, loaded |-> 0,
     created_tasks |-> <<>>, skipped |-> <<>>]

ConcurrentInit ==
    /\ tasks \in AgentInitialTasks
    /\ plans = <<>>
    /\ uuid_seq = Len(tasks)
    /\ chat = <<>>
    /\ AgentIdle
    /\ \E a, b \in ConcurrentItemLists :
         op = [kind |-> "concurrent", n |-> 0,
               calls |-> [c \in Callers |-> ConcurrentCall(IF c = 1 THEN a ELSE b)]]

\* up to the first await: the titles of the project are loaded
ConcurrentLoad(c) ==
    /\ op.calls[c].pc = "start"
    /\ op' = [op EXCEPT !.calls[c].pc = "loop",
                        !.calls[c].existing_titles = LoadedTitles(DB, ThisProject),
                        !.calls[c].loaded = Len(tasks)]
    /\ UNCHANGED <<dbvars, chat, agentvars>>

\* one pass of the for loop: the title is skipped, or the task is inserted and
\* committed and the call is suspended at its task_created yield
ConcurrentPass(c) ==
    LET call == op.calls[c]
        title == Strip(call.tasks[call.i].title)
        made == TaskRepository_create(DB, ThisProject,
                    [title |-> title,
                     priority |-> Some(GetPriority(call.tasks[call.i], "medium")),
                     parent_task_id |-> Null])
    IN /\ call.pc = "loop" /\ call.i <= Len(call.tasks)
       /\ IF IsDuplicate(title, call.existing_titles)
          THEN /\ op' = [op EXCEPT !.calls[c].i = @ + 1,
                                   !.calls[c].skipped = Append(@, title)]
               /\ UNCHANGED dbvars
          ELSE /\ op' = [op EXCEPT !.calls[c].i = @ + 1,
                                   !.calls[c].created_tasks = Append(@, made.task.id)]
               /\ tasks' = made.db.tasks
               /\ plans' = made.db.plans
               /\ uuid_seq' = made.db.uuid_seq
       /\ UNCHANGED <<chat, agentvars>>

\* the loop is over: the result event is yielded and the generator ends
ConcurrentFinish(c) ==
    /\ op.calls[c].pc = "loop" /\ op.calls[c].i > Len(op.calls[c].tasks)
    /\ op' = [op EXCEPT !.calls[c].pc = "done"]
    /\ UNCHANGED <<dbvars, chat, agentvars>>

ConcurrentNext ==
    \E c \in Callers : ConcurrentLoad(c) \/ ConcurrentPass(c) \/ ConcurrentFinish(c)

SpecConcurrent == ConcurrentInit /\ [][ConcurrentNext]_vars

-----------------------------------------------------------------------------
(* The conversation memory called directly *)

MaxChat == 3        \* messages saved in one behaviour
MaxLimit == 2       \* largest limit passed to get_chat_history

ProposeCall ==
    [tool_name |-> "propose_tasks", arguments |-> [tasks |-> <<[title |-> TitleB]>>],
     result |-> [type |-> "proposal"]]
ListCall ==
    [tool_name |-> "list_tasks", arguments |-> <<>>, result |-> [found |-> FALSE]]

\* what save_message may be given: a user message, or an assistant message
\* with or without text and with no, an empty, one or two recorded tool calls
SavedMessages ==
    {[role |-> "user", content |-> "hi", tool_calls |-> Null]}
    \cup {[role |-> "assistant", content |-> c, tool_calls |-> tc] :
            c \in {"", "ok"},
            tc \in {Null, Some([calls |-> <<>>]), Some([calls |-> <<ProposeCall>>]),
                    Some([calls |-> <<ProposeCall, ListCall>>])}}

MemoryInit ==
    /\ tasks = <<>> /\ plans = <<>> /\ uuid_seq = 0
    /\ chat = <<>>
    /\ AgentIdle
    /\ op = NoOp

\* memory.save_message of the agent's project
SaveMessage ==
    /\ Len(chat) < MaxChat
    /\ \E m \in SavedMessages :
        /\ chat' = save_message(chat, ThisProject, m.role, m.content, m.tool_calls)
        /\ op' = [kind |-> "save_message", n |-> 0, saved |-> m]
    /\ UNCHANGED <<dbvars, agentvars>>

\* a message another project's agent saves
SaveElsewhere ==
    /\ Len(chat) < MaxChat
    /\ chat' = save_message(chat, OtherProject, "user", "hi", Null)
    /\ op' = [kind |-> "save_elsewhere", n |-> 0]
    /\ UNCHANGED <<dbvars, agentvars>>

\* memory.get_chat_history(limit) of the agent's project
LoadHistory ==
    /\ \E limit \in 1..MaxLimit :
        op' = [kind |-> "get_chat_history", n |-> 0, limit |-> limit,
               history |-> get_chat_history(chat, ThisProject, limit)]
    /\ UNCHANGED <<dbvars, chat, agentvars>>

\* memory.clear_history() of the agent's project
ClearHistory ==
    /\ \E r \in {clear_history(chat, ThisProject)} :
        /\ chat' = r.rows
        /\ op' = [kind |-> "clear_history", n |-> 0, pre |-> chat, count |-> r.rowcount]
    /\ UNCHANGED <<dbvars, agentvars>>

MemoryNext == SaveMessage \/ SaveElsewhere \/ LoadHistory \/ ClearHistory

SpecMemory == MemoryInit /\ [][MemoryNext]_vars

-----------------------------------------------------------------------------
(* Agent.run and Agent.run_streaming on a project whose conversation is     *)
(* already long: up to and beyond the limit of get_chat_history(limit=10)   *)

MaxStored == 10     \* messages of the earlier exchanges, before the last one

\* the i-th message of the earlier exchanges: a question, then its answer
StoredExchange(i) ==
    IF i % 2 = 1
    THEN [project_id |-> ThisProject, role |-> "user", content |-> "plan it",
          tool_calls |-> Null]
    ELSE [project_id |-> ThisProject, role |-> "assistant", content |-> "ok",
          tool_calls |-> Null]

\* the message persisted last: the user's message of now, sent before; an
\* answer that repeats it word for word; an answer that used a tool; a
\* message of another project
StoredTails ==
    { [project_id |-> ThisProject, role |-> "user", content |-> "create them",
       tool_calls |-> Null],
      [project_id |-> ThisProject, role |-> "assistant", content |-> "create them",
       tool_calls |-> Null],
      [project_id |-> ThisProject, role |-> "assistant", content |-> "Proposed.",
       tool_calls |-> Some([calls |-> <<ProposeCall>>])],
      [project_id |-> OtherProject, role |-> "user", content |-> "create them",
       tool_calls |-> Null] }

StoredChats ==
    {[i \in 1..k |-> StoredExchange(i)] \o t :
        k \in 0..MaxStored, t \in {<<>>} \cup {<<r>> : r \in StoredTails}}

\* the LLM results of the invocation: the final answer at once, or after one
\* turn that asks for list_tasks
HistoryScripts ==
    {<<TwinFinal>>, <<[content |-> "Let me check.", calls |-> <<ListTasksCall>>], TwinFinal>>}

HistoryInit ==
    /\ tasks = <<>> /\ plans = <<>> /\ uuid_seq = 0
    /\ chat \in StoredChats
    /\ AgentIdle
    /\ \E script \in HistoryScripts :
         op = [kind |-> "history", script |-> script, pre |-> chat]

HistoryNext ==
    \/ RunStart \/ StreamStart \/ TwinCallLLM
    \/ RunFinal \/ StreamFinal
    \/ RunExecuteTool \/ StreamExecuteTool
    \/ RunAppendTurn \/ StreamAppendTurn

SpecHistory == HistoryInit /\ [][HistoryNext]_vars

-----------------------------------------------------------------------------
(* The tool registry as an object: ToolRegistry._tools is a dict from tool  *)
(* name to tool, here the sequence of its values in insertion order.  A     *)
(* tool is [name, instance], instance being the identity of the object.     *)

MaxRegistrations == 2   \* register calls after Agent.__init__

\* ToolRegistry.register: self._tools[tool.name] = tool; a key the dict holds
\* keeps its place, a new key goes last
ToolRegistry_register(tools, tool) ==
    IF \E i \in DOMAIN tools : tools[i].name = tool.name
    THEN [i \in DOMAIN tools |-> IF tools[i].name = tool.name THEN tool ELSE tools[i]]
    ELSE Append(tools, tool)

\* BaseTool.to_claude_format: the description and the parameters are those
\* of the tool's class, which its name stands for
to_claude_format(tool) ==
    [name |-> tool.name, description |-> <<"description", tool.name>>,
     input_schema |-> <<"parameters", tool.name>>]

\* ToolRegistry.get_tool_definitions
ToolRegistry_get_tool_definitions(tools) ==
    [i \in DOMAIN tools |-> to_claude_format(tools[i])]

\* Agent._register_tools: one register call per tool, from the i-th on
RECURSIVE register_tools(_, _)
register_tools(tools, i) ==
    IF i > Len(RegisteredTools) THEN tools
    ELSE register_tools(
             ToolRegistry_register(tools, [name |-> RegisteredTools[i], instance |-> i]),
             i + 1)

\* A call that would read the registry anew for each LLM call
ToolsHanded_read_per_call(tool_definitions, tools) ==
    ToolRegistry_get_tool_definitions(tools)

\* tools=tool_definitions of llm.chat / llm.chat_streaming: the local list
ToolsHanded(tool_definitions, tools) == tool_definitions

\* tools registered after construction: a new ListTasksTool, a CreateTaskTool
LateTools == {"list_tasks", "create_task"}

\* the LLM results of the invocation: up to two turns that ask for
\* list_tasks, then the final answer
RegistryScripts ==
    {[i \in 1..k |-> TwinListTurn] \o <<TwinFinal>> : k \in 0..2}

RegistryInit ==
    /\ tasks \in AgentInitialTasks
    /\ plans = <<>>
    /\ uuid_seq = Len(tasks)
    /\ chat = AgentInitialChat(tasks)
    /\ AgentIdle
    /\ \E script \in RegistryScripts :
         op = [kind |-> "registry", script |-> script,
               tools |-> register_tools(<<>>, 1),
               log |-> [i \in DOMAIN RegisteredTools |->
                          [name |-> RegisteredTools[i], instance |-> i]],
               at_start |-> <<>>, tool_definitions |-> <<>>, handed |-> <<>>]

\* agent.tools.register(tool) by another coroutine, before or during a run
RegisterTool ==
    /\ Len(op.log) < Len(RegisteredTools) + MaxRegistrations
    /\ \E name \in LateTools :
       \E tool \in {[name |-> name, instance |-> Len(op.log) + 1]} :
          op' = [op EXCEPT !.tools = ToolRegistry_register(@, tool),
                           !.log = Append(@, tool)]
    /\ UNCHANGED <<dbvars, chat, agentvars>>

\* run / run_streaming up to the loop: the user message is saved, the message
\* list is built and "Get tool definitions" reads the registry
RegistryBegin(m, msg) ==
    /\ pc = "idle"
    /\ mode' = m
    /\ user_message' = msg
    /\ chat' = save_message(chat, ThisProject, "user", msg, Null)
    /\ messages' = BuildMessages(get_chat_history(chat', ThisProject, HistoryLimit), msg)
    /\ op' = [op EXCEPT !.tool_definitions = ToolRegistry_get_tool_definitions(op.tools),
                        !.at_start = op.log]
    /\ pc' = "loop"
    /\ UNCHANGED <<dbvars, iteration, all_tool_calls, response, tool_results, llm_calls,
                   free_calls, events, returned>>

RegistryRunStart == \E msg \in UserMessages : RegistryBegin("run", msg)
RegistryStreamStart == \E msg \in UserMessages : RegistryBegin("stream", msg)

\* the LLM call of either entry point: what it is handed as tools is kept
RegistryCallLLM ==
    /\ mode \in {"run", "stream"} /\ pc = "loop" /\ LoopContinues(iteration)
    /\ llm_calls < Len(op.script)
    /\ iteration' = iteration + 1
    /\ llm_calls' = llm_calls + 1
    /\ op' = [op EXCEPT !.handed = Append(@, ToolsHanded(op.tool_definitions, op.tools))]
    /\ \E ch \in {op.script[llm_calls + 1]} :
        /\ response' = LLMResult(ch.content, ch.calls, llm_calls + 1)
        /\ events' = IF mode = "stream"
                     THEN events \o <<ThinkingEvent(iteration + 1, all_tool_calls)>>
                            \o (IF ch.content # ""
                                THEN <<[type |-> "text_delta", text |-> ch.content]>>
                                ELSE <<>>)
                     ELSE events
    /\ pc' = "respond"
    /\ UNCHANGED <<dbvars, chat, mode, user_message, messages, all_tool_calls,
                   tool_results, free_calls, returned>>

RegistryNext ==
    \/ RegisterTool \/ RegistryRunStart \/ RegistryStreamStart \/ RegistryCallLLM
    \/ RunFinal \/ StreamFinal
    \/ RunExecuteTool \/ StreamExecuteTool
    \/ RunAppendTurn \/ StreamAppendTurn

SpecRegistry == RegistryInit /\ [][RegistryNext]_vars

-----------------------------------------------------------------------------
(* update_task and delete_task, and TaskRepository.update, called directly  *)
(* by an agent bound to ThisProject                                         *)

MaxEdits == 1       \* update / delete calls in one behaviour

\* task ids a call may name: the rows the tables may hold, and one no table holds
MissingTaskId == 9
TaskIds == {1, 2, 3, MissingTaskId}

\* the values a call may give the fields it changes
EditValues == [title |-> TitleB, status |-> "done", priority |-> "high"]

\* the fields one call changes: any of title, status, priority, or none
EditFields == {[f \in S |-> EditValues[f]] : S \in SUBSET {"title", "status", "priority"}}

\* **tool_args of update_task: the task_id string and the fields
UpdateArgs(task_id, fields) ==
    [f \in DOMAIN fields \cup {"task_id"} |->
        IF f = "task_id" THEN task_id ELSE fields[f]]

\* a task_id string: a UUID, or text UUID() rejects
TaskIdArgs == {[valid |-> TRUE, id |-> i] : i \in TaskIds} \cup {[valid |-> FALSE, id |-> 0]}

EditInit ==
    /\ tasks \in ToolInitialTasks
    /\ plans = <<>>
    /\ uuid_seq = Len(tasks)
    /\ chat = <<>>
    /\ AgentIdle
    /\ op = NoOp

CallUpdateTask ==
    /\ op.n < MaxEdits
    /\ \E task_id \in TaskIdArgs : \E fields \in EditFields :
       \E args \in {UpdateArgs(task_id, fields)} :
         Applied("update_task", args, Tool_execute("update_task", DB, args), 1)

CallDeleteTask ==
    /\ op.n < MaxEdits
    /\ \E task_id \in TaskIdArgs : \E args \in {[task_id |-> task_id]} :
         Applied("delete_task", args, Tool_execute("delete_task", DB, args), 1)

\* TaskRepository(db).update(task_id, TaskUpdate(**fields))
CallRepositoryUpdate ==
    /\ op.n < MaxEdits
    /\ \E task_id \in TaskIds : \E fields \in EditFields :
       \E r \in {TaskRepository_update(DB, task_id, fields)} :
         Applied("TaskRepository.update", [task_id |-> task_id, data |-> fields],
                 [db |-> r.db, task |-> r.task], 1)

EditNext == CallUpdateTask \/ CallDeleteTask \/ CallRepositoryUpdate

SpecEdit == EditInit /\ [][EditNext]_vars

-----------------------------------------------------------------------------
(* The provider adapters: one chat / chat_streaming call is a loop of at    *)
(* most MAX_RETRIES requests to the provider's API                          *)

MAX_RETRIES == 3
INITIAL_BACKOFF == 2

Providers == {"anthropic", "openai", "gemini"}

\* RETRYABLE_STATUS_CODES of the adapters that classify errors
RETRYABLE_STATUS_CODES(provider) ==
    IF provider = "anthropic" THEN {429, 529, 503, 500} ELSE {429, 500, 503}

\* what a request to the API may raise: the SDK's connection error, its status
\* error with the HTTP status, or any other exception
APIConnectionError == [class |-> "APIConnectionError", status_code |-> 0]
APIStatusError(code) == [class |-> "APIStatusError", status_code |-> code]
OtherException == [class |-> "RuntimeError", status_code |-> 0]

StatusCodes == {429, 500, 503, 529, 401, 400}

ApiErrors ==
    {APIConnectionError, OtherException} \cup {APIStatusError(c) : c \in StatusCodes}

\* A backoff that would not grow
retry_delay_constant(attempt) == INITIAL_BACKOFF

\* _retry_delay: the seconds slept before the next attempt
retry_delay(attempt) == INITIAL_BACKOFF * (2 ^ attempt)

\* A classification that would hold no error for retryable
is_retryable_never(provider, error) == FALSE

\* _is_retryable of the Anthropic and OpenAI adapters
is_retryable(provider, error) ==
    IF error.class = "APIConnectionError" THEN TRUE
    ELSE IF error.class = "APIStatusError"
         THEN error.status_code \in RETRYABLE_STATUS_CODES(provider)
         ELSE FALSE

\* the except clause of the retry loop: Anthropic and OpenAI catch the SDK's
\* two error classes, Gemini catches Exception
Caught(provider, error) ==
    \/ provider = "gemini"
    \/ error.class \in {"APIStatusError", "APIConnectionError"}

\* the test under the except clause: sleep and `continue`, else `raise`.
\* The Gemini adapter has no _is_retryable and tests the attempt number only.
Retries(provider, error, attempt) ==
    /\ Caught(provider, error)
    /\ provider = "gemini" \/ is_retryable(provider, error)
    /\ attempt < MAX_RETRIES - 1

\* the normalized result an adapter builds from a successful response; the
\* Gemini API gives no tool call ids, so the adapter uses the function name
ProviderResult(provider, ch, n) ==
    IF provider = "gemini"
    THEN [content |-> ch.content,
          tool_calls |-> [k \in DOMAIN ch.calls |->
                            [id |-> ch.calls[k].name, name |-> ch.calls[k].name,
                             arguments |-> ch.calls[k].arguments]],
          stop_reason |-> "FinishReason.STOP"]
    ELSE LLMResult(ch.content, ch.calls, n)

MaxProviderCalls == 2   \* chat calls one invocation of the agent makes

NoAnswer == [content |-> "", calls |-> <<>>]

\* the state of the adapter's call: the loop variable, requests made, the
\* seconds slept, the errors the requests raised, and how the call ended
ProviderIdle(provider) ==
    [kind |-> "chat", provider |-> provider, status |-> "idle", attempt |-> 0,
     attempts |-> 0, delays |-> <<>>, errors |-> <<>>, raised |-> Null,
     answer |-> NoAnswer]

ProviderInit ==
    /\ tasks \in AgentInitialTasks
    /\ plans = <<>>
    /\ uuid_seq = Len(tasks)
    /\ chat = AgentInitialChat(tasks)
    /\ AgentIdle
    /\ \E provider \in Providers : op = ProviderIdle(provider)

\* run / run_streaming: one more iteration, and self.llm.chat or
\* self.llm.chat_streaming is entered
ProviderChatBegin ==
    /\ mode \in {"run", "stream"} /\ pc = "loop" /\ LoopContinues(iteration)
    /\ llm_calls < MaxProviderCalls
    /\ iteration' = iteration + 1
    /\ llm_calls' = llm_calls + 1
    /\ events' = IF mode = "stream"
                 THEN Append(events, ThinkingEvent(iteration + 1, all_tool_calls))
                 ELSE events
    /\ op' = [ProviderIdle(op.provider) EXCEPT !.status = "trying"]
    /\ pc' = "llm"
    /\ UNCHANGED <<dbvars, chat, mode, user_message, messages, all_tool_calls,
                   response, tool_results, free_calls, returned>>

\* one pass of `for attempt in range(MAX_RETRIES)`: the request succeeds and
\* the result is returned to the agent, or it raises and the adapter sleeps
\* and goes round, or re-raises and the error leaves run / run_streaming
ProviderAttempt ==
    /\ pc = "llm" /\ op.status = "trying"
    /\ \/ \E ch \in LLMChoices(1) :
            /\ response' = ProviderResult(op.provider, ch, llm_calls)
            /\ events' = IF mode = "stream" /\ ch.content # ""
                         THEN Append(events, [type |-> "text_delta", text |-> ch.content])
                         ELSE events
            /\ op' = [op EXCEPT !.status = "returned", !.attempts = @ + 1,
                                !.answer = ch]
            /\ pc' = "respond"
       \/ \E error \in ApiErrors :
            /\ IF Retries(op.provider, error, op.attempt)
               THEN /\ op' = [op EXCEPT !.attempts = @ + 1,
                                        !.errors = Append(@, error),
                                        !.delays = Append(@, retry_delay(op.attempt)),
                                        !.attempt = @ + 1]
                    /\ pc' = pc
               ELSE /\ op' = [op EXCEPT !.attempts = @ + 1,
                                        !.errors = Append(@, error),
                                        !.status = "raised",
                                        !.raised = Some(error)]
                    /\ pc' = "raised"
            /\ UNCHANGED <<response, events>>
    /\ UNCHANGED <<dbvars, chat, mode, user_message, iteration, messages,
                   all_tool_calls, tool_results, llm_calls, free_calls, returned>>

ProviderNext ==
    \/ RunStart \/ StreamStart
    \/ ProviderChatBegin \/ ProviderAttempt
    \/ RunFinal \/ StreamFinal
    \/ RunExecuteTool \/ StreamExecuteTool
    \/ RunAppendTurn \/ StreamAppendTurn

SpecProvider == ProviderInit /\ [][ProviderNext]_vars

-----------------------------------------------------------------------------
(* One chat_streaming call of an adapter, chunk by chunk: each pass of       *)
(* `for attempt in range(MAX_RETRIES)` opens a stream, forwards its text as   *)
(* text_delta events and ends with the result event, unless the stream       *)
(* raises on the way                                                         *)

MaxChunks == 2      \* text chunks the API sends during one call, over all attempts

TextChunks == {"a", "b"}

\* the top of the try block: full_text = "" for the attempt
ChatStreamingAttempt(provider, attempt, yielded, chunks) ==
    [kind |-> "chat_streaming", provider |-> provider, status |-> "streaming",
     attempt |-> attempt, full_text |-> <<>>, yielded |-> yielded, chunks |-> chunks]

ChatStreamingInit ==
    /\ tasks = <<>> /\ plans = <<>> /\ uuid_seq = 0
    /\ chat = <<>>
    /\ AgentIdle
    /\ \E provider \in Providers : op = ChatStreamingAttempt(provider, 0, <<>>, 0)

\* a chunk of text arrives: full_text += text; yield the text_delta event
ChatStreamingDelta ==
    /\ op.kind = "chat_streaming" /\ op.status = "streaming"
    /\ op.chunks < MaxChunks
    /\ \E text \in TextChunks :
         op' = [op EXCEPT !.full_text = Append(@, text),
                          !.yielded = Append(@, [type |-> "text_delta", text |-> text]),
                          !.chunks = @ + 1]
    /\ UNCHANGED <<dbvars, chat, agentvars>>

\* the stream is exhausted: the result event is yielded and the call returns
ChatStreamingResult ==
    /\ op.kind = "chat_streaming" /\ op.status = "streaming"
    /\ op' = [op EXCEPT !.status = "returned",
                        !.yielded = Append(@, [type |-> "result", content |-> op.full_text,
                                               tool_calls |-> <<>>])]
    /\ UNCHANGED <<dbvars, chat, agentvars>>

\* opening the stream or reading from it raises: the adapter sleeps and goes
\* round for the next attempt, or the error leaves the call
ChatStreamingError ==
    /\ op.kind = "chat_streaming" /\ op.status = "streaming"
    /\ \E error \in ApiErrors :
         IF Retries(op.provider, error, op.attempt)
         THEN op' = ChatStreamingAttempt(op.provider, op.attempt + 1, op.yielded, op.chunks)
         ELSE op' = [op EXCEPT !.status = "raised"]
    /\ UNCHANGED <<dbvars, chat, agentvars>>

ChatStreamingNext == ChatStreamingDelta \/ ChatStreamingResult \/ ChatStreamingError

SpecChatStreaming == ChatStreamingInit /\ [][ChatStreamingNext]_vars

-----------------------------------------------------------------------------
(* The agent loop over the normalized results of each provider's adapter,   *)
(* for LLM results that may ask for the same tool more than once            *)

ToolIdsInit ==
    /\ tasks \in AgentInitialTasks
    /\ plans = <<>>
    /\ uuid_seq = Len(tasks)
    /\ chat = AgentInitialChat(tasks)
    /\ AgentIdle
    /\ \E provider \in Providers : \E script \in TwinScripts :
         op = [kind |-> "tool_ids", provider |-> provider, script |-> script]

\* the LLM call of either entry point: the adapter of the provider turns the
\* next result of the script into its normalized form
ToolIdsCallLLM ==
    /\ mode \in {"run", "stream"} /\ pc = "loop" /\ LoopContinues(iteration)
    /\ llm_calls < Len(op.script)
    /\ iteration' = iteration + 1
    /\ llm_calls' = llm_calls + 1
    /\ \E ch \in {op.script[llm_calls + 1]} :
        /\ response' = ProviderResult(op.provider, ch, llm_calls + 1)
        /\ events' = IF mode = "stream"
                     THEN events \o <<ThinkingEvent(iteration + 1, all_tool_calls)>>
                            \o (IF ch.content # ""
                                THEN <<[type |-> "text_delta", text |-> ch.content]>>
                                ELSE <<>>)
                     ELSE events
    /\ pc' = "respond"
    /\ UNCHANGED <<dbvars, chat, mode, user_message, messages, all_tool_calls,
                   tool_results, free_calls, returned, op>>

ToolIdsNext ==
    \/ RunStart \/ StreamStart \/ ToolIdsCallLLM
    \/ RunFinal \/ StreamFinal
    \/ RunExecuteTool \/ StreamExecuteTool
    \/ RunAppendTurn \/ StreamAppendTurn

SpecToolIds == ToolIdsInit /\ [][ToolIdsNext]_vars

-----------------------------------------------------------------------------
(* Properties of Agent.run and Agent.run_streaming, checked under Spec *)

\* The work an invocation has left, as a triple ordered lexicographically:
\* LLM calls it may still make, its place in the iteration, tool calls of the
\* current response not yet executed
Rank ==
    <<max_iterations - llm_calls,
      CASE pc = "idle" -> 3 [] pc = "respond" -> 2 [] pc = "loop" -> 1 [] OTHER -> 0,
      Len(response.tool_calls) - Len(tool_results)>>

LexLess(a, b) ==
    \/ a[1] < b[1]
    \/ a[1] = b[1] /\ a[2] < b[2]
    \/ a[1] = b[1] /\ a[2] = b[2] /\ a[3] < b[3]

\* what a finished invocation handed back: the value run returned, or the
\* message and tool_calls of the last event run_streaming emitted
HandedBack ==
    IF mode = "run" THEN returned.v
    ELSE [message |-> events[Len(events)].message,
          tool_calls |-> events[Len(events)].tool_calls]

\* An invocation that is not over has a step to take: at the head of the
\* loop the LLM call or the ceiling exit; within an iteration the final
\* answer, the next tool call (its dispatch gives an outcome for every call)
\* or the end of the turn
HasNextStep ==
    /\ pc = "loop" =>
          ENABLED (RunCallLLM \/ StreamCallLLM \/ RunMaxIterations \/ StreamMaxIterations)
    /\ pc = "respond" =>
          \/ ENABLED (RunFinal \/ StreamFinal \/ RunAppendTurn \/ StreamAppendTurn)
          \/ mode \in {"run", "stream"} /\ Len(tool_results) < Len(response.tool_calls)

\* C1: run and run_streaming make at most 10 LLM calls and then terminate:
\* the LLM call count never exceeds max_iterations, every step of an
\* invocation lowers a rank that cannot fall below zero, and an invocation
\* that is not over always has a step to take.  An invocation that ends
\* although its last LLM response still asked for tools made exactly 10 LLM
\* calls and hands back the apology with the tool calls accumulated so far.
C1_TerminatesWithinTenCalls ==
    /\ [](/\ llm_calls <= max_iterations
          /\ Len(tool_results) <= Len(response.tool_calls)
          /\ HasNextStep
          /\ (pc = "done" /\ response.tool_calls # <<>>) =>
                /\ llm_calls = max_iterations
                /\ HandedBack = [message |-> Apology,
                                 tool_calls |-> Some(all_tool_calls)])
    /\ [][LexLess(Rank', Rank)]_vars

\* run ended at the ceiling: ten LLM responses, each asking for tools
C1_Witness ==
    /\ mode = "run" /\ pc = "done"
    /\ response.tool_calls # <<>>
    /\ returned.v.message = Apology
    /\ Len(all_tool_calls) >= max_iterations

IsToolEvent(e) == e.type \in {"tool_start", "tool_end"}
ToolEvents == SelectSeq(events, IsToolEvent)

\* ids of the tasks a logged confirm_proposed_tasks call reported as created
CreatedIds(entry) ==
    IF /\ entry.tool_name = "confirm_proposed_tasks"
       /\ "success" \in DOMAIN entry.result
       /\ entry.result.success
    THEN {entry.result.tasks[i].id : i \in DOMAIN entry.result.tasks}
    ELSE {}

\* ids a logged list_tasks call listed, in the order listed
ListedIds(entry) == [i \in DOMAIN entry.result.tasks |-> entry.result.tasks[i].id]

InThisProject(t) == t.project_id = ThisProject

\* C2: the tool calls of one LLM response are executed one after another in
\* the returned order.  The k-th result of the turn answers the k-th tool
\* call and is the k-th of the turn's entries in the call log; when
\* streaming, every tool_start is followed by the tool_end of the same call,
\* carrying the logged result, before the next tool_start.  A later call sees
\* what an earlier one committed: list_tasks lists every task a confirm
\* reported before it, and exactly the project's tasks as they are stored.
C2_ToolCallsRunInOrder ==
    /\ \A k \in DOMAIN tool_results :
          /\ tool_results[k].tool_use_id = response.tool_calls[k].id
          /\ all_tool_calls[Len(all_tool_calls) - Len(tool_results) + k]
                = [tool_name |-> response.tool_calls[k].name,
                   arguments |-> response.tool_calls[k].arguments,
                   result |-> tool_results[k].result]
    /\ \A j, k \in DOMAIN all_tool_calls :
          (j < k /\ all_tool_calls[k].tool_name = "list_tasks")
              => CreatedIds(all_tool_calls[j]) \subseteq Range(ListedIds(all_tool_calls[k]))
    /\ (all_tool_calls # <<>> /\ all_tool_calls[Len(all_tool_calls)].tool_name = "list_tasks")
          => LET stored == SelectSeq(tasks, InThisProject)
             IN ListedIds(all_tool_calls[Len(all_tool_calls)])
                   = [i \in DOMAIN stored |-> stored[Len(stored) + 1 - i].id]
    /\ mode = "stream" =>
          /\ Len(ToolEvents) = 2 * Len(all_tool_calls)
          /\ \A k \in DOMAIN all_tool_calls :
                /\ ToolEvents[2 * k - 1]
                      = [type |-> "tool_start", tool_name |-> all_tool_calls[k].tool_name,
                         arguments |-> all_tool_calls[k].arguments]
                /\ ToolEvents[2 * k]
                      = [type |-> "tool_end", tool_name |-> all_tool_calls[k].tool_name,
                         result |-> all_tool_calls[k].result]

\* one streamed turn asked for confirm_proposed_tasks and then list_tasks;
\* the confirm created tasks and list_tasks found them
C2_Witness ==
    /\ mode = "stream" /\ pc = "respond"
    /\ Len(tool_results) = 2
    /\ response.tool_calls[1].name = "confirm_proposed_tasks"
    /\ response.tool_calls[2].name = "list_tasks"
    /\ CreatedIds(all_tool_calls[Len(all_tool_calls) - 1]) # {}
    /\ CreatedIds(all_tool_calls[Len(all_tool_calls) - 1])
          \subseteq Range(ListedIds(all_tool_calls[Len(all_tool_calls)]))

\* the loop is at a tool call whose name the registry does not hold
AtUnknownTool ==
    /\ pc = "respond"
    /\ Len(tool_results) < Len(response.tool_calls)
    /\ ~ToolRegistry_get(response.tool_calls[Len(tool_results) + 1].name)

\* C3: a tool name that is not in the registry raises nothing.  The call's
\* result is recorded as {"error": "Unknown tool: <name>"} in the turn's
\* results and in the call log, nothing is written to the database, and the
\* loop stays in the turn, to go on with the remaining calls and the next
\* LLM call.
C3_UnknownToolIsAnErrorResult ==
    /\ [](/\ pc # "raised"
          /\ \A k \in DOMAIN all_tool_calls :
                ~ToolRegistry_get(all_tool_calls[k].tool_name)
                    => all_tool_calls[k].result
                          = [error |-> "Unknown tool: " \o all_tool_calls[k].tool_name])
    /\ [][AtUnknownTool =>
            /\ pc' = "respond"
            /\ UNCHANGED <<dbvars, llm_calls>>
            /\ tool_results'
                  = Append(tool_results,
                      [tool_use_id |-> response.tool_calls[Len(tool_results) + 1].id,
                       result |-> [error |-> "Unknown tool: "
                                       \o response.tool_calls[Len(tool_results) + 1].name]])
            /\ Len(all_tool_calls') = Len(all_tool_calls) + 1]_vars

\* the first response asked for create_task, which is not registered, and then
\* for list_tasks; both were answered and the second LLM call ended the run
C3_Witness ==
    /\ pc = "done" /\ llm_calls = 2
    /\ Len(all_tool_calls) = 2
    /\ all_tool_calls[1].tool_name = "create_task"
    /\ all_tool_calls[1].result = [error |-> "Unknown tool: create_task"]
    /\ all_tool_calls[2].tool_name = "list_tasks"

\* the tool call the loop is at names a registered tool
AtRegisteredTool ==
    /\ pc = "respond"
    /\ Len(tool_results) < Len(response.tool_calls)
    /\ ToolRegistry_get(response.tool_calls[Len(tool_results) + 1].name)

\* what that tool itself does with the call: run drains it through execute,
\* run_streaming through execute_streaming where the tool streams
ToolOutcome ==
    LET call == response.tool_calls[Len(tool_results) + 1]
    IN IF mode = "stream" /\ supports_streaming(call.name)
       THEN Tool_execute_streaming(call.name, DB, call.arguments)
       ELSE Tool_execute(call.name, DB, call.arguments)

\* the dispatch step for a tool that raises, with outcome o
RaisingToolStep(o) ==
    LET call == response.tool_calls[Len(tool_results) + 1]
        recorded == [error |-> o.error]
    IN /\ pc' = "respond"
       /\ tasks' = o.db.tasks /\ plans' = o.db.plans
       /\ tool_results' = Append(tool_results,
                                 [tool_use_id |-> call.id, result |-> recorded])
       /\ all_tool_calls' = Append(all_tool_calls,
                                   [tool_name |-> call.name, arguments |-> call.arguments,
                                    result |-> recorded])
       /\ mode = "stream" =>
             /\ Len(events') = Len(events) + Len(o.events) + 2
             /\ \A i \in DOMAIN o.events :
                   /\ events'[Len(events) + 1 + i].type = o.events[i].type
                   /\ events'[Len(events) + 1 + i].tool_name = call.name
             /\ events'[Len(events')]
                   = [type |-> "tool_end", tool_name |-> call.name, result |-> recorded]

\* the user turn the loop appended for the tool calls of the last response
FedBack ==
    LET n == Len(response.tool_calls)
        last == messages[Len(messages)]
    IN /\ last.role = "user"
       /\ last.content
             = Blocks([k \in 1..n |->
                          [type |-> "tool_result",
                           tool_use_id |-> response.tool_calls[k].id,
                           content |-> JsonDumps(
                               all_tool_calls[Len(all_tool_calls) - n + k].result)]])

\* C4: an exception raised by a tool, also one raised after the tool emitted
\* intermediate events, never leaves run or run_streaming.  The dispatch step
\* keeps what the tool had committed and emitted, records {"error": <message>}
\* as the call's result and stays in the turn; when the turn is over every
\* result, errors included, is in the tool-result turn handed to the next LLM
\* call.
C4_ToolExceptionsBecomeResults ==
    /\ [](/\ pc # "raised"
          /\ (pc = "loop" /\ llm_calls > 0) => FedBack)
    /\ [][AtRegisteredTool =>
            \A o \in {ToolOutcome} : o.raised => RaisingToolStep(o)]_vars

\* streamed: confirm_proposed_tasks created a task, emitted task_created,
\* then raised KeyError on an item without a title; the error was the call's
\* result, and the invocation went on to a final answer
C4_Witness ==
    /\ mode = "stream" /\ pc = "done"
    /\ response.tool_calls = <<>>
    /\ \E i \in DOMAIN events :
          /\ i < Len(events)
          /\ events[i].type = "task_created"
          /\ events[i + 1] = [type |-> "tool_end", tool_name |-> "confirm_proposed_tasks",
                              result |-> [error |-> KeyErrorTitle]]

IsResponseEvent(e) == e.type = "response"
ResponseEvents == SelectSeq(events, IsResponseEvent)

\* C10: run_streaming emits no response event before it ends and exactly one
\* when it ends; that event is the last of the stream (nothing follows it),
\* and its message and tool_calls are what run returns from the same point:
\* the final answer, or the apology at the ceiling, with the call log or None.
C10_OneTerminalResponseEvent ==
    mode = "stream" =>
        /\ pc # "done" => ResponseEvents = <<>>
        /\ pc = "done" =>
              /\ Len(ResponseEvents) = 1
              /\ events[Len(events)].type = "response"
              /\ DOMAIN events[Len(events)] = {"type", "message", "tool_calls"}
              /\ HandedBack
                    = RunReturn(IF response.tool_calls = <<>>
                                THEN response.content ELSE Apology,
                                all_tool_calls)
              /\ ~ENABLED (StreamCallLLM \/ StreamFinal \/ StreamAppendTurn
                           \/ StreamMaxIterations)
              /\ ~(Len(tool_results) < Len(response.tool_calls) /\ pc = "respond")

\* a stream that ended on a final answer after tool calls, and so after
\* thinking, tool_start and tool_end events
C10_Witness ==
    /\ mode = "stream" /\ pc = "done"
    /\ response.tool_calls = <<>>
    /\ Len(all_tool_calls) >= 2
    /\ Len(events) > 5
    /\ events[Len(events)].tool_calls = Some(all_tool_calls)

-----------------------------------------------------------------------------
(* Properties of the propose and confirm tools, checked under SpecTools *)

EmptyDB == [tasks |-> <<>>, plans |-> <<>>, uuid_seq |-> 0]

\* C5: propose_tasks and propose_plan leave the task store, the plan store
\* and the conversation log as they were, whatever the arguments and however
\* often they are called, and what they return hangs on the arguments alone:
\* it is what the same call returns on an empty database after no other call.
C5_ProposeIsPure ==
    op.kind \in {"propose_tasks", "propose_plan"} =>
        /\ tasks = op.pre.tasks
        /\ plans = op.pre.plans
        /\ chat = op.pre.chat
        /\ [op.outcome EXCEPT !.db = EmptyDB] = Tool_execute(op.kind, EmptyDB, op.args)

\* propose_tasks returned a two-task proposal on a project that holds tasks
C5_Witness ==
    /\ op.kind = "propose_tasks"
    /\ ~op.outcome.raised
    /\ Len(op.outcome.result.tasks) >= 2
    /\ op.pre.tasks # <<>>
    /\ tasks = op.pre.tasks

\* the last call was confirm_proposed_tasks, every requested task titled
ConfirmedTitledTasks ==
    /\ op.kind = "confirm_proposed_tasks"
    /\ \A i \in DOMAIN op.args.tasks : "title" \in DOMAIN op.args.tasks[i]

\* the i-th requested title, trimmed
RequestedTitle(i) == Strip(op.args.tasks[i].title)

\* trimmed, lower-cased titles of the tasks the project held before the call
TitlesBefore ==
    {Lower(Strip(op.pre.tasks[j].title)) :
        j \in {i \in DOMAIN op.pre.tasks : op.pre.tasks[i].project_id = ThisProject}}

AlreadyExists(i) == Lower(RequestedTitle(i)) \in TitlesBefore

\* the trimmed titles of the requested tasks that exist already (dup = TRUE),
\* or do not (dup = FALSE), in request order
RequestedWhere(dup) ==
    LET Keep(i) == AlreadyExists(i) = dup
        kept == SelectSeq([i \in DOMAIN op.args.tasks |-> i], Keep)
    IN [k \in DOMAIN kept |-> RequestedTitle(kept[k])]

\* the rows the call added to the tasks table
NewRows == SubSeq(tasks, Len(op.pre.tasks) + 1, Len(tasks))

\* C6: confirm_proposed_tasks, given titled tasks, keeps the rows that were
\* there, adds one row to the project for each requested title whose trimmed,
\* case-insensitive form is no title of a task the project already held, in
\* request order, and reports exactly the other titles in skipped; so every
\* requested task is either created or skipped.  The result lists the rows
\* created, and when there is one, success is true and count is their number.
C6_ConfirmCreatesNewSkipsExisting ==
    ConfirmedTitledTasks =>
        /\ ~op.outcome.raised
        /\ Len(tasks) >= Len(op.pre.tasks)
        /\ SubSeq(tasks, 1, Len(op.pre.tasks)) = op.pre.tasks
        /\ [k \in DOMAIN NewRows |-> NewRows[k].title] = RequestedWhere(FALSE)
        /\ \A k \in DOMAIN NewRows : NewRows[k].project_id = ThisProject
        /\ op.outcome.result.skipped = ListOrNone(RequestedWhere(TRUE))
        /\ Len(RequestedWhere(FALSE)) + Len(RequestedWhere(TRUE)) = Len(op.args.tasks)
        /\ [k \in DOMAIN op.outcome.result.tasks |-> op.outcome.result.tasks[k].id]
              = [k \in DOMAIN NewRows |-> NewRows[k].id]
        /\ NewRows # <<>> =>
              /\ op.outcome.result.success = TRUE
              /\ op.outcome.result.count = Len(NewRows)

\* a request of two titles of which one existed, written in another case:
\* one row created, one title skipped
C6_Witness ==
    /\ ConfirmedTitledTasks
    /\ Len(op.args.tasks) = 2
    /\ Len(NewRows) = 1
    /\ op.outcome.result.success = TRUE
    /\ op.outcome.result.skipped # Null
    /\ \E i \in DOMAIN op.args.tasks :
          AlreadyExists(i) /\ op.args.tasks[i].title \notin
              {op.pre.tasks[j].title : j \in DOMAIN op.pre.tasks}

\* C7: when confirm_proposed_tasks is given titles that all exist in the
\* project already, it creates nothing, raises nothing, and returns success
\* false with count 0 and the titles, trimmed, in skipped.
C7_AllDuplicatesFailSoftly ==
    (/\ ConfirmedTitledTasks
     /\ op.args.tasks # <<>>
     /\ \A i \in DOMAIN op.args.tasks : AlreadyExists(i)) =>
        /\ tasks = op.pre.tasks
        /\ plans = op.pre.plans
        /\ ~op.outcome.raised
        /\ op.outcome.result.success = FALSE
        /\ op.outcome.result.count = 0
        /\ op.outcome.result.skipped
              = Some([i \in DOMAIN op.args.tasks |-> RequestedTitle(i)])

\* two requested titles, both already in the project
C7_Witness ==
    /\ ConfirmedTitledTasks
    /\ Len(op.args.tasks) = 2
    /\ \A i \in DOMAIN op.args.tasks : AlreadyExists(i)
    /\ op.outcome.result.success = FALSE
    /\ tasks = op.pre.tasks

\* C8: confirm_plan(goal, steps) with n titled steps adds one parent task
\* titled goal with priority high, then n subtasks of it whose order is their
\* 0-based position, then one Plan row for the parent whose step_order lists
\* the subtask ids in creation order, and reports success with plan_id and
\* parent_task_id.
C8_ConfirmPlanCreatesPlan ==
    (/\ op.kind = "confirm_plan"
     /\ \A i \in DOMAIN op.args.steps : "title" \in DOMAIN op.args.steps[i]) =>
        LET n == Len(op.args.steps)
            base == Len(op.pre.tasks)
        IN /\ Len(tasks) = base + 1 + n
           /\ tasks[base + 1].title = op.args.goal
           /\ tasks[base + 1].priority = "high"
           /\ tasks[base + 1].parent_task_id = Null
           /\ \A k \in 1..n :
                 /\ tasks[base + 1 + k].parent_task_id = Some(tasks[base + 1].id)
                 /\ tasks[base + 1 + k].order = Some(k - 1)
           /\ Len(plans) = 1
           /\ plans[1].parent_task_id = tasks[base + 1].id
           /\ plans[1].step_order = [k \in 1..n |-> tasks[base + 1 + k].id]
           /\ ~op.outcome.raised
           /\ op.outcome.result.success = TRUE
           /\ op.outcome.result.plan_id = plans[1].id
           /\ op.outcome.result.parent_task_id = tasks[base + 1].id

-----------------------------------------------------------------------------
(* Properties of the conversation memory, checked under SpecMemory *)

\* the messages saved for the agent's project, oldest first
SavedHere == SelectSeq(chat, InThisProject)

RecordedCalls(m) == IF m.tool_calls.isnull THEN <<>> ELSE m.tool_calls.v.calls

\* how many turns the saved message m comes back as
TurnsOf(m) == IF m.role = "assistant" /\ RecordedCalls(m) # <<>> THEN 2 ELSE 1

\* turns are what the saved message m is to come back as
Reconstructs(turns, m) ==
    LET calls == RecordedCalls(m)
        k == Len(calls)
        t == IF m.content # "" THEN 1 ELSE 0
    IN IF TurnsOf(m) = 2
       THEN /\ Len(turns) = 2
            /\ turns[1].role = "assistant" /\ turns[2].role = "user"
            /\ "blocks" \in DOMAIN turns[1].content
            /\ "blocks" \in DOMAIN turns[2].content
            /\ LET uses == turns[1].content.blocks
                   results == turns[2].content.blocks
               IN /\ Len(uses) = t + k /\ Len(results) = k
                  /\ t = 1 => uses[1] = [type |-> "text", text |-> m.content]
                  /\ \A i \in 1..k :
                        /\ uses[t + i].type = "tool_use"
                        /\ uses[t + i].name = calls[i].tool_name
                        /\ uses[t + i].input = calls[i].arguments
                        /\ results[i].type = "tool_result"
                        /\ results[i].tool_use_id = uses[t + i].id
                        /\ results[i].content = JsonDumps(calls[i].result)
                  /\ \A i, j \in 1..k : i # j => uses[t + i].id # uses[t + j].id
       ELSE turns = <<[role |-> m.role, content |-> Str(m.content)]>>

\* the last n turns of the loaded history
LastTurns(n) == SubSeq(op.history, Len(op.history) - n + 1, Len(op.history))

\* C9: after a message is saved, reloading the history gives that message
\* back at its end: an assistant message with k >= 1 recorded tool calls as
\* one assistant turn (its text, if any, then k tool-use blocks in order)
\* followed by one user turn of k tool-result blocks, the i-th referencing the
\* i-th tool-use id; any other message as it was saved.
C9_SavedMessageComesBack ==
    (op.kind = "get_chat_history" /\ SavedHere # <<>>) =>
        LET m == SavedHere[Len(SavedHere)]
        IN /\ Len(op.history) >= TurnsOf(m)
           /\ Reconstructs(LastTurns(TurnsOf(m)), m)

RECURSIVE ReconstructsAll(_, _, _)
ReconstructsAll(turns, rows, i) ==
    IF i > Len(rows) THEN turns = <<>>
    ELSE /\ Len(turns) >= TurnsOf(rows[i])
         /\ Reconstructs(SubSeq(turns, 1, TurnsOf(rows[i])), rows[i])
         /\ ReconstructsAll(SubSeq(turns, TurnsOf(rows[i]) + 1, Len(turns)), rows, i + 1)

\* The reconstruction itself: while the project holds no more messages than
\* the limit, the loaded history is every saved message, in order, each as
\* C9 describes.
ReconstructionWithinLimit ==
    (op.kind = "get_chat_history" /\ Len(SavedHere) <= op.limit) =>
        ReconstructsAll(op.history, SavedHere, 1)

\* the last n messages saved for the agent's project, oldest first
LastSaved(n) ==
    SubSeq(SavedHere, IF Len(SavedHere) > n THEN Len(SavedHere) - n + 1 ELSE 1,
           Len(SavedHere))

\* C16: get_chat_history(limit) is the reconstruction of the most recent
\* `limit` saved messages of the project, oldest first: once more than
\* `limit` were saved, the newest is included and the oldest are left out.
C16_MostRecentMessagesLoaded ==
    (op.kind = "get_chat_history") =>
        ReconstructsAll(op.history, LastSaved(op.limit), 1)

OfOtherProjects(m) == m.project_id # ThisProject

\* C19: after clear_history the project has no message left, the number
\* returned is the number of messages it had (0 when it had none), and the
\* messages of every other project are as they were.
C19_ClearHistoryDeletesOwnMessages ==
    (op.kind = "clear_history") =>
        /\ SavedHere = <<>>
        /\ op.count = Len(SelectSeq(op.pre, InThisProject))
        /\ SelectSeq(chat, OfOtherProjects) = SelectSeq(op.pre, OfOtherProjects)

C19_Witness ==
    /\ op.kind = "clear_history" /\ op.count = 2
    /\ Len(chat) = 1 /\ chat[1].project_id = OtherProject

-----------------------------------------------------------------------------
(* Properties of the provider adapters, checked under SpecProvider *)

\* errors every adapter is to treat as transient: a connection failure, rate
\* limiting, a server error, service unavailable
TransientErrors ==
    {APIConnectionError, APIStatusError(429), APIStatusError(500), APIStatusError(503)}

\* errors no retry can cure: an auth failure, a malformed request
FatalErrors == {APIStatusError(401), APIStatusError(400)}

AllIn(seq, S) == \A k \in DOMAIN seq : seq[k] \in S

\* C12: for each adapter, a chat call whose attempts so far (at most two) all
\* failed with a retryable error has not been given up; when its first two
\* attempts failed so and the third succeeds, the agent receives the
\* normalized result of that response, 3 attempts were made and exactly 2
\* backoff delays were waited.
C12_RetriedTwiceThenSucceeds ==
    (op.kind = "chat" /\ Len(op.errors) <= 2 /\ AllIn(op.errors, TransientErrors)) =>
        /\ op.status # "raised"
        /\ Len(op.delays) = Len(op.errors)
        /\ (op.status = "returned" /\ Len(op.errors) = 2) =>
              /\ op.attempts = 3
              /\ Len(op.delays) = 2
              /\ pc = "respond" =>
                    response = ProviderResult(op.provider, op.answer, llm_calls)

C12_Witness ==
    /\ op.kind = "chat" /\ op.provider = "gemini" /\ op.status = "returned"
    /\ op.errors = <<APIStatusError(429), APIConnectionError>>
    /\ pc = "respond" /\ response.tool_calls # <<>>

\* C13: for each adapter, a call whose first attempt failed with an error
\* that is not transient (auth failure, malformed request) has raised it to
\* the caller: exactly one attempt was made and no backoff delay was waited.
C13_FatalErrorRaisedAtOnce ==
    (op.kind = "chat" /\ Len(op.errors) >= 1 /\ op.errors[1] \in FatalErrors) =>
        /\ op.status = "raised"
        /\ op.raised = Some(op.errors[1])
        /\ op.attempts = 1
        /\ op.delays = <<>>

\* The same for the two adapters that classify errors
FatalErrorRaisedAtOnceWhereClassified ==
    (op.kind = "chat" /\ op.provider \in {"anthropic", "openai"}) =>
        C13_FatalErrorRaisedAtOnce

-----------------------------------------------------------------------------
(* Properties of update_task, delete_task and TaskRepository.update,        *)
(* checked under SpecEdit                                                   *)

\* the rows of the table before the call that have the id the call names
NamedRows(task_id) == {i \in DOMAIN op.pre.tasks : op.pre.tasks[i].id = task_id}

\* the call names a task that does not exist or is another project's
NotOwnTask(task_id) ==
    \A i \in NamedRows(task_id) : op.pre.tasks[i].project_id # ThisProject

IsStructuredFailure(outcome) ==
    /\ ~outcome.raised
    /\ DOMAIN outcome.result = {"success", "error"}
    /\ outcome.result.success = FALSE

\* C15: update_task and delete_task given the id of a task that does not
\* exist, or of a task of a project other than the agent's, return
\* {"success": false, "error": ...}, raise nothing and leave every task (and
\* plan) as it was.
C15_ForeignOrMissingTaskRefused ==
    (/\ op.kind \in {"update_task", "delete_task"}
     /\ op.args.task_id.valid
     /\ NotOwnTask(op.args.task_id.id)) =>
        /\ IsStructuredFailure(op.outcome)
        /\ tasks = op.pre.tasks
        /\ plans = op.pre.plans

C15_Witness ==
    /\ op.kind = "delete_task" /\ op.args.task_id.valid
    /\ NamedRows(op.args.task_id.id) # {}
    /\ NotOwnTask(op.args.task_id.id)
    /\ tasks = op.pre.tasks /\ Len(tasks) = 3

\* row `after` is row `before` with exactly the fields of data changed
ChangedExactly(before, after, data) ==
    /\ DOMAIN after = DOMAIN before
    /\ \A f \in DOMAIN before :
          after[f] = IF f \in DOMAIN data THEN data[f] ELSE before[f]

\* the table is as before, but for the row with the id, changed by data
OnlyRowChanged(task_id, data) ==
    /\ Len(tasks) = Len(op.pre.tasks)
    /\ \A i \in DOMAIN tasks :
          IF i \in NamedRows(task_id)
          THEN ChangedExactly(op.pre.tasks[i], tasks[i], data)
          ELSE tasks[i] = op.pre.tasks[i]

-----------------------------------------------------------------------------
(* Properties of an abandoned run_streaming, checked under SpecAbandon *)

\* the tasks an event announces as created: the task of a task_created or
\* plan_step_created event, the tasks listed by the tool_end of a confirm
AnnouncedTasks(e) ==
    IF e.type \in {"task_created", "plan_step_created"}
    THEN {[id |-> e.task.id, title |-> e.task.title]}
    ELSE IF /\ e.type = "tool_end"
            /\ e.tool_name = "confirm_proposed_tasks"
            /\ "tasks" \in DOMAIN e.result
    THEN {[id |-> e.result.tasks[i].id, title |-> e.result.tasks[i].title] :
             i \in DOMAIN e.result.tasks}
    ELSE IF /\ e.type = "tool_end"
            /\ e.tool_name = "confirm_plan"
            /\ "steps" \in DOMAIN e.result
    THEN {[id |-> e.result.steps[i].task_id, title |-> e.result.steps[i].title] :
             i \in DOMAIN e.result.steps}
    ELSE {}

Announced == UNION {AnnouncedTasks(events[i]) : i \in DOMAIN events}

StoredTasks == {[id |-> tasks[i].id, title |-> tasks[i].title] : i \in DOMAIN tasks}

\* C17: once the consumer has stopped driving run_streaming, every task or
\* plan step an emitted task_created, plan_step_created or tool_end event
\* announced is in the task store, and the store does not change any more.
C17_AbandonmentKeepsAnnouncedTasks ==
    /\ [](pc = "abandoned" => Announced \subseteq StoredTasks)
    /\ [][pc = "abandoned" => (pc' = "abandoned" /\ tasks' = tasks /\ plans' = plans)]_vars

\* abandoned at the first task_created of a confirm that had two tasks to
\* create: the first is stored, the second never is
C17_Witness ==
    /\ pc = "abandoned"
    /\ events # <<>>
    /\ events[Len(events)].type = "task_created"
    /\ Len(tasks) = 1 /\ tasks[1].title = TitleA
    /\ Len(tool_results) < Len(response.tool_calls)
    /\ "tasks" \in DOMAIN NextToolCall.arguments
    /\ Len(NextToolCall.arguments.tasks) = 2

-----------------------------------------------------------------------------
(* Properties of POST /chat/stream, checked under SpecRoute *)

SessionIsOpen(session) ==
    \/ session = "db" /\ op.db = "open"
    \/ session = "stream_db" /\ op.stream_db = "open"

\* a step of the agent that reads or writes through its session: the user
\* message is saved and the history loaded, a tool is run, the assistant
\* message is saved
PersistenceStep ==
    \/ pc = "idle" /\ pc' = "loop"
    \/ pc = "respond" /\ pc' = "done"
    \/ pc = "respond" /\ (Len(tool_results') > Len(tool_results) \/ pc' = "raised")

\* C18: in a streamed chat request the agent is bound to the session opened
\* inside the stream generator, never to the request-scoped one; that
\* session is opened when the generator starts and closed only when it has
\* ended; and every persistence step of the agent finds its session open,
\* whenever the request-scoped session was closed.
C18_StreamUsesItsOwnOpenSession ==
    /\ [](op.kind = "send_message_stream" =>
            /\ op.agent_db \in {"none", "stream_db"}
            /\ op.generator \in {"none", "created"} <=> op.stream_db = "none"
            /\ op.generator = "running" <=> op.stream_db = "open"
            /\ op.generator = "ended" <=> op.stream_db = "closed"
            /\ op.handler = "running" => op.db = "open")
    /\ [][PersistenceStep => SessionIsOpen(op.agent_db)]_vars

\* a tool has written tasks after the request-scoped session was closed
C18_Witness ==
    /\ op.kind = "send_message_stream"
    /\ op.db = "closed" /\ op.stream_db = "open"
    /\ pc = "respond" /\ Len(tool_results) > 0
    /\ Len(tasks) > 1

-----------------------------------------------------------------------------
(* Properties of run and run_streaming side by side, checked under SpecTwin *)

\* run_streaming has ended as run did: as many LLM calls over the same
\* message lists (each call's list is a prefix of the final one), the same
\* tool calls with the same results in the same order, the same tables, and
\* one response event carrying what run returned
StreamEndedAsRun ==
    /\ pc = op.run.pc
    /\ llm_calls = op.run.llm_calls
    /\ messages = op.run.messages
    /\ all_tool_calls = op.run.all_tool_calls
    /\ tasks = op.run.tasks /\ plans = op.run.plans /\ chat = op.run.chat
    /\ pc = "done" =>
          /\ ~op.run.returned.isnull
          /\ ResponseEvents = <<[type |-> "response",
                                 message |-> op.run.returned.v.message,
                                 tool_calls |-> op.run.returned.v.tool_calls]>>

BothEnded ==
    /\ op.kind = "twin" /\ op.phase = "stream"
    /\ mode = "stream" /\ pc \in {"done", "raised"}

\* C11: driven with the same user message and the same LLM results on the
\* same project, run_streaming makes the same LLM calls with the same
\* message lists as run, executes the same tools in the same order, leaves
\* the same task, plan and conversation state, and its response event equals
\* the value run returned.
C11_RunAndStreamAreOneMachine == BothEnded => StreamEndedAsRun

\* every tool call of the script gives exactly the arguments its tool declares
DeclaredArgumentsOnly ==
    \A t \in DOMAIN op.script : \A k \in DOMAIN op.script[t].calls :
        LET call == op.script[t].calls[k]
        IN UnexpectedKeys(call.name, call.arguments) = {}
           /\ MissingKeys(call.name, call.arguments) = {}

\* The two entry points do agree while the LLM keeps to the declared arguments
RunAndStreamAgreeOnDeclaredArguments ==
    (BothEnded /\ DeclaredArgumentsOnly) => StreamEndedAsRun

-----------------------------------------------------------------------------
(* Properties of the message list, checked under SpecHistory *)

\* the invocation has built its message list and not yet called the LLM
BeforeFirstLLMCall == mode \in {"run", "stream"} /\ pc = "loop" /\ llm_calls = 0

\* the turns that reconstruct some stretch of the messages persisted before
\* the invocation
EarlierTurns ==
    {FormatFrom(SubSeq(op.pre, a, b), 1) : a \in 1..(Len(op.pre) + 1), b \in 0..Len(op.pre)}

\* C21: whatever messages the project has persisted, the message list handed
\* to the first LLM call of run / run_streaming ends with the user turn of
\* the current user message, and has it once: what stands before that turn
\* is made of earlier persisted messages only.
C21_UserMessageOnceAtTail ==
    BeforeFirstLLMCall =>
        /\ messages # <<>>
        /\ messages[Len(messages)] = [role |-> "user", content |-> Str(user_message)]
        /\ SubSeq(messages, 1, Len(messages) - 1) \in EarlierTurns

\* While the saved user message is within the rows get_chat_history loads
\* (fewer than HistoryLimit stored for the project before), it is the tail.
UserMessageOnceAtTailWithinLimit ==
    (BeforeFirstLLMCall /\ Len(SelectSeq(op.pre, InThisProject)) < HistoryLimit) =>
        /\ messages # <<>>
        /\ messages[Len(messages)] = [role |-> "user", content |-> Str(user_message)]
        /\ SubSeq(messages, 1, Len(messages) - 1) \in EarlierTurns

-----------------------------------------------------------------------------
(* Properties of the persisted answer and of the message list, checked      *)
(* under Spec                                                               *)

\* a tool-use block of this invocation (the history's carry hist ids)
IsLiveToolUse(b) == b.type = "tool_use" /\ b.id[1] = "toolu"

\* the tool calls the message list ms shows from turn i on: for each
\* assistant turn of this invocation its tool-use blocks, in order, each with
\* the result the next turn carries for it
RECURSIVE CallsInTurns(_, _)
CallsInTurns(ms, i) ==
    IF i >= Len(ms) THEN <<>>
    ELSE IF ms[i].role = "assistant" /\ "blocks" \in DOMAIN ms[i].content
    THEN LET uses == SelectSeq(ms[i].content.blocks, IsLiveToolUse)
             results == ms[i + 1].content.blocks
         IN [k \in DOMAIN uses |->
                [tool_name |-> uses[k].name, arguments |-> uses[k].input,
                 result |-> results[k].content.json]]
            \o CallsInTurns(ms, i + 2)
    ELSE CallsInTurns(ms, i + 1)

\* the row save_message wrote for the user message of this invocation
UserRow ==
    [project_id |-> ThisProject, role |-> "user", content |-> user_message,
     tool_calls |-> Null]

\* C22: while an invocation is under way nothing but the user message is
\* persisted; when it ends on an LLM response without tool calls, exactly one
\* assistant message follows the user message in the conversation: its
\* content is the response's text, its tool-call log is every tool call the
\* invocation executed, over all iterations, in execution order (null when
\* there was none), and the same list is handed back to the caller.
C22_FinalAnswerPersistedOnce ==
    /\ pc \in {"loop", "respond"} => chat[Len(chat)] = UserRow
    /\ (pc = "done" /\ response.tool_calls = <<>>) =>
          LET log == CallsInTurns(messages, 1)
          IN /\ Len(chat) >= 2
             /\ chat[Len(chat) - 1] = UserRow
             /\ chat[Len(chat)]
                   = [project_id |-> ThisProject, role |-> "assistant",
                      content |-> response.content,
                      tool_calls |-> IF log = <<>> THEN Null ELSE Some([calls |-> log])]
             /\ HandedBack = [message |-> response.content, tool_calls |-> ListOrNone(log)]

\* an invocation that executed tool calls in two iterations and then got its
\* final answer: the persisted log holds the calls of both
C22_Witness ==
    /\ pc = "done" /\ response.tool_calls = <<>>
    /\ llm_calls = 3
    /\ Len(all_tool_calls) >= 3
    /\ chat[Len(chat)].role = "assistant"
    /\ chat[Len(chat)].tool_calls = Some([calls |-> CallsInTurns(messages, 1)])

\* the step that ends an iteration whose response asked for tools
TurnEnds == pc = "respond" /\ pc' = "loop"

\* C23: the step that ends an iteration whose LLM response carried k >= 1
\* tool calls extends the message list by exactly two turns and leaves the
\* turns before them as they were: an assistant turn of the response text,
\* if it is not empty, and then k tool-use blocks in the returned order; a
\* user turn of k tool-result blocks, the i-th with the id of the i-th tool
\* call and the serialized result recorded for that call.  No other step of
\* the loop changes the message list.
C23_TurnExtendsMessagesByTwo ==
    /\ [][TurnEnds =>
            LET k == Len(response.tool_calls)
                n == Len(messages)
                t == IF response.content # "" THEN 1 ELSE 0
            IN /\ k >= 1
               /\ Len(messages') = n + 2
               /\ SubSeq(messages', 1, n) = messages
               /\ messages'[n + 1].role = "assistant"
               /\ Len(messages'[n + 1].content.blocks) = t + k
               /\ t = 1 => messages'[n + 1].content.blocks[1]
                              = [type |-> "text", text |-> response.content]
               /\ \A i \in 1..k :
                     messages'[n + 1].content.blocks[t + i]
                        = [type |-> "tool_use", id |-> response.tool_calls[i].id,
                           name |-> response.tool_calls[i].name,
                           input |-> response.tool_calls[i].arguments]
               /\ messages'[n + 2].role = "user"
               /\ Len(messages'[n + 2].content.blocks) = k
               /\ \A i \in 1..k :
                     messages'[n + 2].content.blocks[i]
                        = [type |-> "tool_result",
                           tool_use_id |-> response.tool_calls[i].id,
                           content |-> JsonDumps(
                               all_tool_calls[Len(all_tool_calls) - k + i].result)]]_vars
    /\ [][messages' # messages => (pc = "idle" \/ TurnEnds)]_vars

\* a turn of text and two tool calls with different results has been appended
C23_Witness ==
    /\ pc = "loop" /\ llm_calls = 1
    /\ Len(response.tool_calls) = 2
    /\ response.content # ""
    /\ Len(messages[Len(messages) - 1].content.blocks) = 3
    /\ Len(messages[Len(messages)].content.blocks) = 2
    /\ messages[Len(messages)].content.blocks[1].content
          # messages[Len(messages)].content.blocks[2].content

-----------------------------------------------------------------------------
(* Properties of the tool registry, checked under SpecRegistry *)

\* the tool names of the register calls of log, each at its first call
RECURSIVE FirstRegistered(_)
FirstRegistered(log) ==
    IF log = <<>> THEN <<>>
    ELSE LET front == FirstRegistered(SubSeq(log, 1, Len(log) - 1))
         IN IF log[Len(log)].name \in Range(front) THEN front
            ELSE Append(front, log[Len(log)].name)

\* the tool the last register call of log under that name gave
LastRegistered(log, name) ==
    log[CHOOSE i \in DOMAIN log :
            /\ log[i].name = name
            /\ \A j \in DOMAIN log : log[j].name = name => j <= i]

NamesOf(definitions) == [k \in DOMAIN definitions |-> definitions[k].name]

\* C24: all LLM calls of one invocation are handed the same tool-schema
\* list, the one the registry gave before the loop, whatever is registered
\* meanwhile: one entry for each distinct tool name registered until then, in
\* the order the names were first registered.  The registry itself always
\* holds one tool per registered name, the one registered last under it:
\* registering a name again replaces the tool and adds no entry.
C24_OneToolListPerRun ==
    /\ \A i, j \in DOMAIN op.handed : op.handed[i] = op.handed[j]
    /\ \A i \in DOMAIN op.handed :
          /\ NamesOf(op.handed[i]) = FirstRegistered(op.at_start)
          /\ \A k \in DOMAIN op.handed[i] :
                DOMAIN op.handed[i][k] = {"name", "description", "input_schema"}
    /\ NamesOf(op.tools) = FirstRegistered(op.log)
    /\ \A k \in DOMAIN op.tools : op.tools[k] = LastRegistered(op.log, op.tools[k].name)

\* three LLM calls, a new tool and a second list_tasks registered meanwhile:
\* the last call was handed the eight definitions of the start
C24_Witness ==
    /\ pc = "done"
    /\ Len(op.handed) = 3
    /\ Len(op.log) = Len(op.at_start) + 2
    /\ Len(op.tools) = Len(RegisteredTools) + 1
    /\ \E k \in DOMAIN op.tools : op.tools[k].name = "list_tasks" /\ op.tools[k].instance > 8
    /\ Len(op.handed[3]) = Len(RegisteredTools)

-----------------------------------------------------------------------------
(* Further properties of the confirm tools, checked under SpecTools *)

\* no two tasks of the agent's project among rows have the same trimmed,
\* lower-cased title
NoSharedTitle(rows) ==
    \A i, j \in DOMAIN rows :
        (i # j /\ rows[i].project_id = ThisProject /\ rows[j].project_id = ThisProject)
            => Lower(Strip(rows[i].title)) # Lower(Strip(rows[j].title))

\* C25: after confirm_proposed_tasks has returned, no two tasks of the
\* project share a trimmed, case-insensitive title, provided none did before
\* the call, whatever the requested list holds, titles repeated within it
\* included.
C25_NoDuplicateTitlesAfterConfirm ==
    (/\ op.kind = "confirm_proposed_tasks"
     /\ ~op.outcome.raised
     /\ NoSharedTitle(op.pre.tasks)) => NoSharedTitle(tasks)

\* the requested titles differ from one another, trimmed and lower-cased
DistinctRequest ==
    \A i, j \in DOMAIN op.args.tasks :
        i # j => Lower(RequestedTitle(i)) # Lower(RequestedTitle(j))

\* For a request whose titles differ from one another the project is left
\* without duplicate titles.
NoDuplicateTitlesForDistinctRequests ==
    (/\ ConfirmedTitledTasks
     /\ DistinctRequest
     /\ NoSharedTitle(op.pre.tasks)) => NoSharedTitle(tasks)

\* the last call repeated a confirm_proposed_tasks of titled tasks
ConfirmedAgain ==
    /\ op.kind = "confirm_proposed_tasks_again"
    /\ \A i \in DOMAIN op.args.tasks : "title" \in DOMAIN op.args.tasks[i]

\* C26: confirm_proposed_tasks called a second time in succession with the
\* same list of titled tasks leaves the tasks and plans as the first call
\* left them: it creates nothing and reports every requested title, trimmed
\* and in request order, as skipped.
C26_ConfirmIsIdempotent ==
    ConfirmedAgain =>
        /\ ~op.first.raised /\ ~op.outcome.raised
        /\ tasks = op.pre.tasks
        /\ plans = op.pre.plans
        /\ op.outcome.events = <<>>
        /\ op.outcome.result.count = 0
        /\ op.outcome.result.tasks = <<>>
        /\ op.outcome.result.skipped
              = ListOrNone([i \in DOMAIN op.args.tasks |-> RequestedTitle(i)])

\* the first call created two tasks, one from a padded upper-case title; the
\* second call skipped both
C26_Witness ==
    /\ ConfirmedAgain
    /\ Len(op.first.result.tasks) = 2
    /\ op.outcome.result.success = FALSE
    /\ Len(op.outcome.result.skipped.v) = 2
    /\ \E i \in DOMAIN op.args.tasks : op.args.tasks[i].title = TitleAPadded

\* the last call was confirm_plan, every step titled
ConfirmedTitledPlan ==
    /\ op.kind = "confirm_plan"
    /\ \A i \in DOMAIN op.args.steps : "title" \in DOMAIN op.args.steps[i]

\* the task confirm_plan created for the goal, and its subtasks
PlanParent == tasks[Len(op.pre.tasks) + 1]
IsPlanSubtask(t) == t.parent_task_id = Some(PlanParent.id)
PlanSubtasks == SelectSeq(tasks, IsPlanSubtask)

\* C27: confirm_plan with titled steps guards against duplicates among the
\* subtasks of the plan's parent only.  It raises nothing; every step is a
\* subtask of the parent afterwards, under its trimmed title, also a step
\* whose title is that of a task elsewhere in the project; a step whose
\* normalized title a subtask of the parent already has is reported as
\* skipped; and no two subtasks of the parent share a normalized title.
C27_PlanDuplicateGuardScopedToParent ==
    ConfirmedTitledPlan =>
        /\ ~op.outcome.raised
        /\ Len(tasks) > Len(op.pre.tasks)
        /\ \A i \in DOMAIN op.args.steps :
              \E k \in DOMAIN PlanSubtasks :
                  Lower(PlanSubtasks[k].title) = Lower(Strip(op.args.steps[i].title))
        /\ \A j, k \in DOMAIN PlanSubtasks :
              j # k => Lower(Strip(PlanSubtasks[j].title)) # Lower(Strip(PlanSubtasks[k].title))

-----------------------------------------------------------------------------
(* Properties of the event stream, checked under SpecAbandon *)

\* an event a tool yielded before its result, forwarded for the tool `name`
IsIntermediate(e, name) ==
    /\ e.type \notin {"thinking", "text_delta", "tool_start", "tool_end", "response"}
    /\ "tool_name" \in DOMAIN e
    /\ e.tool_name = name

\* the events from the i-th on are well bracketed, k tool calls having been
\* bracketed before them: outside a bracket there are thinking, text_delta
\* and response events only; a tool_start is followed by intermediate events
\* of its tool and then by the tool_end of that tool, which carries the
\* result recorded for the call.  Only a stream its consumer has abandoned
\* may end inside a bracket, or at a tool_end whose call is not yet recorded.
RECURSIVE Bracketed(_, _, _)
Bracketed(evs, i, k) ==
    IF i > Len(evs)
    THEN k = Len(all_tool_calls) \/ (pc = "abandoned" /\ k = Len(all_tool_calls) + 1)
    ELSE IF evs[i].type = "tool_start"
    THEN LET after == {j \in (i + 1)..Len(evs) : ~IsIntermediate(evs[j], evs[i].tool_name)}
         IN IF after = {} THEN pc = "abandoned" /\ k = Len(all_tool_calls)
            ELSE LET j == CHOOSE m \in after : \A n \in after : m <= n
                 IN /\ evs[j].type = "tool_end"
                    /\ evs[j].tool_name = evs[i].tool_name
                    /\ DOMAIN evs[j] = {"type", "tool_name", "result"}
                    /\ IF k + 1 <= Len(all_tool_calls)
                       THEN all_tool_calls[k + 1]
                               = [tool_name |-> evs[i].tool_name,
                                  arguments |-> evs[i].arguments,
                                  result |-> evs[j].result]
                       ELSE pc = "abandoned" /\ j = Len(evs)
                    /\ Bracketed(evs, j + 1, k + 1)
    ELSE /\ evs[i].type \in {"thinking", "text_delta", "response"}
         /\ Bracketed(evs, i + 1, k)

\* the stream is left at the tool_start it has just emitted
LeftAtToolStart ==
    /\ pc' = "abandoned"
    /\ events' # events
    /\ events'[Len(events')].type = "tool_start"

\* C28: in run_streaming every tool call is bracketed.  Its tool_start is
\* emitted before the tool has done anything: a stream left at that event
\* has the database as it was.  Then come the intermediate events of that
\* tool, each carrying its tool_name, and then exactly one tool_end with the
\* result recorded for the call, before the next tool_start, thinking or
\* response event; so also for a tool the registry does not hold and for a
\* tool that raises.
C28_ToolCallsAreBracketed ==
    /\ [](mode = "stream" => Bracketed(events, 1, 0))
    /\ [][LeftAtToolStart => UNCHANGED dbvars]_vars

\* one turn asked for confirm_proposed_tasks, which created a task and then
\* raised, and for a tool that is not registered: two closed brackets, each
\* ending with the error recorded
C28_Witness ==
    /\ mode = "stream" /\ pc = "done"
    /\ \E i \in DOMAIN events :
          /\ i + 4 <= Len(events)
          /\ events[i].type = "tool_start"
          /\ events[i + 1].type = "task_created"
          /\ events[i + 1].tool_name = "confirm_proposed_tasks"
          /\ events[i + 2] = [type |-> "tool_end", tool_name |-> "confirm_proposed_tasks",
                              result |-> [error |-> KeyErrorTitle]]
          /\ events[i + 3].type = "tool_start"
          /\ events[i + 4] = [type |-> "tool_end", tool_name |-> "create_task",
                              result |-> [error |-> "Unknown tool: create_task"]]

\* C29: confirm_proposed_tasks in streaming mode emits exactly one
\* task_created event per task it creates, in creation order.  When the
\* k-th event is out, the k-th task is stored and nothing of a later item is:
\* a consumer that stops there finds k new rows, the last being the task of
\* the event.  The events' progress.current runs 1, 2, ..., never above
\* progress.total, and ends at the count of the result when the call returns.
C29_OneTaskCreatedEventPerTask ==
    op.kind \in {"confirm_proposed_tasks", "confirm_proposed_tasks_suspended"} =>
        /\ Len(op.outcome.events) = Len(NewRows)
        /\ \A k \in DOMAIN op.outcome.events :
              /\ op.outcome.events[k].type = "task_created"
              /\ op.outcome.events[k].task.id = NewRows[k].id
              /\ op.outcome.events[k].task.title = NewRows[k].title
              /\ op.outcome.events[k].progress.current = k
              /\ op.outcome.events[k].progress.current
                    <= op.outcome.events[k].progress.total
        /\ (op.kind = "confirm_proposed_tasks" /\ ~op.outcome.raised)
              => op.outcome.result.count = Len(op.outcome.events)
        /\ op.kind = "confirm_proposed_tasks_suspended" => op.outcome.events # <<>>

\* the consumer stopped at the first task_created of a request of two new
\* tasks: one row is stored, the second task is not
C29_Witness ==
    /\ op.kind = "confirm_proposed_tasks_suspended"
    /\ Len(op.outcome.events) = 1
    /\ op.outcome.events[1].progress = [current |-> 1, total |-> 2]
    /\ Len(tasks) = Len(op.pre.tasks) + 1
    /\ tasks[Len(tasks)].id = op.outcome.events[1].task.id

\* C30: confirm_plan in streaming mode, given titled steps, emits exactly one
\* plan_started event, which names the parent task already stored; then one
\* plan_step_created event per subtask created, in step order, each naming a
\* stored subtask; and then, the plan row stored, returns the result that
\* carries plan_id and parent_task_id.
C30_PlanEventsInOrder ==
    ConfirmedTitledPlan =>
        LET evs == op.outcome.events
        IN /\ Len(evs) = 1 + Len(PlanSubtasks)
           /\ evs[1].type = "plan_started"
           /\ evs[1].parent_task_id = PlanParent.id
           /\ \A k \in DOMAIN PlanSubtasks :
                 /\ evs[k + 1].type = "plan_step_created"
                 /\ evs[k + 1].task.id = PlanSubtasks[k].id
           /\ ~op.outcome.raised
           /\ Len(plans) = Len(op.pre.plans) + 1
           /\ op.outcome.result.plan_id = plans[Len(plans)].id
           /\ op.outcome.result.parent_task_id = PlanParent.id

-----------------------------------------------------------------------------
(* C31 *)

IsResultEvent(e) == e.type = "result"

\* the call dealt with by CallExecuteStreaming ended without an exception
StreamingCompleted == op.kind = "execute_streaming" /\ ~op.outcome.raised

\* C31: an execute_streaming that completes without raising yields progress
\* events and then exactly one event of type result, which is its last event
\* and carries the result of the call; for a tool that does not stream, that
\* result event is the only event and carries what execute returned.
C31_OneResultEventLast ==
    StreamingCompleted =>
       /\ Len(op.yielded) >= 1
       /\ \A i \in DOMAIN op.yielded :
             IsResultEvent(op.yielded[i]) <=> i = Len(op.yielded)
       /\ op.yielded[Len(op.yielded)].data = op.outcome.result
       /\ SubSeq(op.yielded, 1, Len(op.yielded) - 1) = op.outcome.events
       /\ ~supports_streaming(op.name) =>
             /\ Len(op.yielded) = 1
             /\ op.yielded[1].data =
                  Tool_execute(op.name, [tasks |-> op.pre.tasks, plans |-> op.pre.plans,
                                         uuid_seq |-> Len(op.pre.tasks)], op.args).result

\* confirm_proposed_tasks completed where every requested title already exists
C31_Witness ==
    /\ StreamingCompleted
    /\ op.name = "confirm_proposed_tasks"
    /\ Len(op.args.tasks) = 2
    /\ op.outcome.result.success = FALSE
    /\ Len(op.yielded) = 1

-----------------------------------------------------------------------------
(* C32 *)

IsThinking(e) == e.type = "thinking"

\* the positions of events before p that hold an event of the given type
Before(p, type) == {q \in 1..(p - 1) : events[q].type = type}

Max(S) == CHOOSE m \in S : \A x \in S : x <= m

\* C32: run_streaming emits one thinking event right before each LLM call; the
\* k-th carries iteration k, has_tool_calls tells whether a tool call of this
\* run has ended before it, and last_tool names the tool call that ended last
\* (None when there is none).
C32_ThinkingBeforeEachLLMCall ==
    /\ [](mode = "stream" =>
            /\ Cardinality({p \in DOMAIN events : IsThinking(events[p])}) = llm_calls
            /\ \A p \in DOMAIN events :
                 IsThinking(events[p]) =>
                   /\ events[p].iteration = Cardinality(Before(p, "thinking")) + 1
                   /\ events[p].has_tool_calls <=> Before(p, "tool_end") # {}
                   /\ events[p].last_tool =
                        IF Before(p, "tool_end") = {} THEN Null
                        ELSE Some(events[Max(Before(p, "tool_end"))].tool_name))
    /\ [][mode = "stream" /\ llm_calls' # llm_calls =>
            /\ llm_calls' = llm_calls + 1
            /\ Len(events') > Len(events)
            /\ SubSeq(events', 1, Len(events)) = events
            /\ IsThinking(events'[Len(events) + 1])
            /\ \A q \in (Len(events) + 2)..Len(events') : events'[q].type = "text_delta"]_vars

\* a second thinking event after two tool calls of different tools
C32_Witness ==
    /\ mode = "stream"
    /\ \E p \in DOMAIN events :
         /\ IsThinking(events[p])
         /\ events[p].iteration = 2
         /\ Cardinality(Before(p, "tool_end")) = 2
         /\ \E q \in Before(p, "tool_end") :
              Some(events[q].tool_name) # events[p].last_tool

-----------------------------------------------------------------------------
(* C33 *)

RowsOf(role) == {i \in DOMAIN chat : chat[i].project_id = ThisProject /\ chat[i].role = role}

\* C33: an invocation that has ended, with a final answer or at the iteration
\* ceiling, has added one user message and one assistant message to the
\* conversation, the assistant message last and carrying the tool calls of
\* the run.
C33_EveryRunPersistsBothMessages ==
    pc = "done" =>
       /\ Cardinality({i \in RowsOf("user") : chat[i].content = user_message}) = 1
       /\ Cardinality(RowsOf("assistant")) = Cardinality(RowsOf("user"))
       /\ chat[Len(chat)].role = "assistant"
       /\ chat[Len(chat)].tool_calls =
            (IF Len(all_tool_calls) > 0 THEN Some([calls |-> all_tool_calls]) ELSE Null)

\* an invocation that ended with the final answer of the LLM has saved both
EveryAnsweredRunPersistsBothMessages ==
    (pc = "done" /\ iteration < max_iterations) => C33_EveryRunPersistsBothMessages

-----------------------------------------------------------------------------
(* C34 *)

IsConfirmCall == op.kind \in {"confirm_proposed_tasks", "confirm_plan"}

\* the result run_streaming records for the call op holds
RecordedResult == Guarded(op.outcome, op.kind).result

IsErrorResult(result) == "error" \in DOMAIN result

StoresUnchanged == tasks = op.pre.tasks /\ plans = op.pre.plans

\* C34: a confirm_proposed_tasks or confirm_plan call whose recorded result is
\* {"error": ...} has left the task and plan stores as they were.
C34_FailedConfirmCreatesNothing ==
    (IsConfirmCall /\ IsErrorResult(RecordedResult)) => StoresUnchanged

\* the same for confirm_proposed_tasks alone, which has no part in the missing
\* list_subtasks
FailedConfirmTasksCreatesNothing ==
    (op.kind = "confirm_proposed_tasks" /\ IsErrorResult(RecordedResult)) => StoresUnchanged

-----------------------------------------------------------------------------
(* C35 *)

\* the positions of the rows the call has added to the tasks table
AddedRows == (Len(op.pre.tasks) + 1)..Len(tasks)

\* the parent tasks the call created, and for one of them the Plan rows that
\* reference it
AddedParents == {i \in AddedRows : tasks[i].parent_task_id = Null}
PlansOf(task_id) == {k \in DOMAIN plans : plans[k].parent_task_id = task_id}

\* C35: after a confirm_plan call, ended either way, the parent task it
\* created has one Plan row referencing it, no Plan row is without its parent
\* task, and every subtask of the parent is listed in step_order of that row.
C35_NoOrphanPlanParents ==
    op.kind = "confirm_plan" =>
       /\ \A i \in AddedParents : Cardinality(PlansOf(tasks[i].id)) = 1
       /\ \A k \in DOMAIN plans :
             \E i \in DOMAIN tasks : tasks[i].id = plans[k].parent_task_id
       /\ \A i \in AddedRows :
             tasks[i].parent_task_id # Null =>
                \E k \in PlansOf(tasks[i].parent_task_id.v) :
                   tasks[i].id \in Range(plans[k].step_order)

-----------------------------------------------------------------------------
(* C36 *)

NormalizedTitle(t) == Lower(Strip(t.title))

\* the positions in tasks of the rows call c has inserted
CreatedBy(c) == {r \in DOMAIN tasks : tasks[r].id \in Range(op.calls[c].created_tasks)}

\* C36: of two interleaved confirm_proposed_tasks calls on one project, at most
\* one creates a title that both request.
C36_GuardHoldsAcrossConcurrentCalls ==
    \A r1 \in CreatedBy(1), r2 \in CreatedBy(2) :
        NormalizedTitle(tasks[r1]) # NormalizedTitle(tasks[r2])

\* the rows of the project that were stored when call c loaded the titles
StoredAtLoad(c) == {r \in 1..op.calls[c].loaded : tasks[r].project_id = ThisProject}

\* C36 as amended: the guard of a call covers the titles stored when it loaded
\* them, and no others: a call creates no title that was stored at its load,
\* and a title created by both calls was inserted by each after the load of
\* the other.
C36_GuardCoversTitlesStoredAtLoad ==
    /\ \A c \in Callers : \A r \in CreatedBy(c) : \A q \in StoredAtLoad(c) :
          NormalizedTitle(tasks[r]) # NormalizedTitle(tasks[q])
    /\ \A r1 \in CreatedBy(1), r2 \in CreatedBy(2) :
          NormalizedTitle(tasks[r1]) = NormalizedTitle(tasks[r2]) =>
             r1 > op.calls[2].loaded /\ r2 > op.calls[1].loaded

\* both calls have ended: one skipped a title the other had committed before
\* its load, and another title was created by both
C36_Witness ==
    /\ \A c \in Callers : op.calls[c].pc = "done"
    /\ \E r \in CreatedBy(1) :
          Strip(tasks[r].title) \in Range(op.calls[2].skipped)
    /\ \E r1 \in CreatedBy(1), r2 \in CreatedBy(2) :
          NormalizedTitle(tasks[r1]) = NormalizedTitle(tasks[r2])

-----------------------------------------------------------------------------
(* C37 *)

IsBlocks(content) == "blocks" \in DOMAIN content

\* the positions of the blocks of a given type in a turn made of blocks
BlocksOf(turn, type) == {k \in DOMAIN turn.content.blocks : turn.content.blocks[k].type = type}

\* the assistant turns of messages that hold tool-use blocks
ToolTurns ==
    {i \in DOMAIN messages :
        /\ messages[i].role = "assistant" /\ IsBlocks(messages[i].content)
        /\ BlocksOf(messages[i], "tool_use") # {}}

\* the tool-use ids of turn i are distinct, and every tool-result block of
\* the turn after it names one tool-use block of turn i
WellPaired(i) ==
    LET uses == messages[i].content.blocks
    IN /\ \A j, k \in BlocksOf(messages[i], "tool_use") : j # k => uses[j].id # uses[k].id
       /\ i < Len(messages)
       /\ messages[i + 1].role = "user" /\ IsBlocks(messages[i + 1].content)
       /\ \A r \in BlocksOf(messages[i + 1], "tool_result") :
             Cardinality({k \in BlocksOf(messages[i], "tool_use") :
                             uses[k].id = messages[i + 1].content.blocks[r].tool_use_id}) = 1

\* C37: in every assistant turn of the message list, built by the loop or
\* rebuilt from history, the tool-use ids are pairwise distinct and each
\* tool-result block of the next turn names exactly one of them, whichever
\* provider gave the tool calls.
C37_ToolUseIdsPairResults == \A i \in ToolTurns : WellPaired(i)

\* the same for the adapters that pass on the ids the API gives
ToolUseIdsPairResultsWhereApiGivesIds ==
    (op.provider # "gemini") => C37_ToolUseIdsPairResults

-----------------------------------------------------------------------------
(* C38 *)

IsTextDelta(e) == e.type = "text_delta"

\* the text of the text_delta events of the call, in order
DeltaTexts ==
    LET deltas == SelectSeq(op.yielded, IsTextDelta)
    IN [k \in DOMAIN deltas |-> deltas[k].text]

OneResultEventLast ==
    /\ Len(op.yielded) >= 1
    /\ \A k \in DOMAIN op.yielded :
          op.yielded[k].type = "result" <=> k = Len(op.yielded)

\* C38: a chat_streaming call that returns, after retries or without, has
\* yielded exactly one result event, as its last event, and the content of
\* that event is the text of all text_delta events of the call put together
\* in order.
C38_ResultIsConcatenationOfDeltas ==
    op.status = "returned" =>
       /\ OneResultEventLast
       /\ op.yielded[Len(op.yielded)].content = DeltaTexts

\* a call that returns has yielded one result event, its last, and where no
\* attempt failed its content is the text of the deltas
ResultIsConcatenationOfDeltasWithoutRetry ==
    op.status = "returned" =>
       /\ OneResultEventLast
       /\ op.attempt = 0 => op.yielded[Len(op.yielded)].content = DeltaTexts

-----------------------------------------------------------------------------
(* C39 *)

\* messages is the list the LLM call just made was given
PassedToLLM == mode \in {"run", "stream"} /\ pc = "respond" /\ llm_calls > 0

Alternates(ms) ==
    \A i \in DOMAIN ms : ms[i].role = (IF i % 2 = 1 THEN "user" ELSE "assistant")

\* C39: in every message list run or run_streaming passes to the LLM, the
\* roles alternate strictly, user first.
C39_RolesAlternate == PassedToLLM => Alternates(messages)

\* the same where no stored message of the conversation carries tool calls
RolesAlternateWithoutStoredToolCalls ==
    (PassedToLLM /\ \A i \in DOMAIN chat : chat[i].tool_calls = Null)
       => Alternates(messages)

====
